---- MODULE Spec2Model ----
(***************************************************************************)
(* Bracket lifecycle and match-result reconciliation of the multi-game    *)
(* tournament server (src/server.js, the game-scoped routes from line 996 *)
(* on).  One tournament slot of one game is modelled: the persisted       *)
(* document games.json restricted to games[gameId].tournaments[id].       *)
(*                                                                         *)
(* Abstractions, all of fields no handler ever reads back:                 *)
(*   - timestamps (createdAt, startedAt, completedAt, submittedAt) and     *)
(*     name/description are dropped; of finishedAt it is kept whether it   *)
(*     holds a time (TRUE) or null (FALSE);                                *)
(*   - the walletAddress a submitter sends along with a result is dropped; *)
(*   - Date.now() based ids are taken to be distinct: a participant id is  *)
(*     the number of its user, a match id is <<round, position>>.          *)
(***************************************************************************)
EXTENDS Integers, Sequences, FiniteSets, TLC

\* ---------------------------------------------------------------- bounds
\* Globally registered users that may register for the tournament.
MaxUsers == 3
\* Requests that may be between their read and their write at one time.
MaxInflight == 2
\* Users that register while requests overlap.
ConcUsers == 2
\* Wins the registry counts in all before the model stops finishing
\* tournaments.
MaxWins == 1
\* Participants of the tournaments the bracket builder is run on alone.
MaxPlayers == 5
\* Participants of the tournament that is played through three rounds.
PlayPlayers == 5
\* Participants of the tournaments that are played under fairness.
LivePlayers == 4
\* Participants of the tournaments whose wins are counted, and the wins
\* the registry counts in all there.
WinsPlayers == 3
WinsCap == 2

Users == 1..MaxUsers

\* ------------------------------------------------------------ JSON values
\* A score as it arrives in a request body: a JSON number, a JSON string of
\* digits, or absent.  val is the integer the digits denote.
Num(n) == [type |-> "number", val |-> n]
Str(n) == [type |-> "string", val |-> n]
Undefined == [type |-> "undefined", val |-> 0]

\* JavaScript === on two such values: same type and same value.
StrictEquals(a, b) == a.type = b.type /\ a.val = b.val

\* parseInt of a number or of a string of digits.
ParseInt(raw) == raw.val

\* score1: null, score2: null
NullScore == 0 - 1

\* A wallet address: hex is the address value, upper tells whether its hex
\* letters are written in upper case.
Wallet(h, up) == [hex |-> h, upper |-> up]
ToLowerCase(w) == [w EXCEPT !.upper = FALSE]
NullWallet == Wallet(0, FALSE)

\* The global registry: every user of Users is registered, under the
\* address spelling it registered with.
WalletOf(u) == Wallet(u, TRUE)
IdOf(u) == u

Participant(u) == [id |-> IdOf(u), walletAddress |-> WalletOf(u)]

\* stats of a user that has just registered globally; gameStats is the
\* entry of the one game modelled.
NewStats == [totalWins |-> 0, gameStats |-> [wins |-> 0, tournaments |-> 0]]
NullPlayer == [id |-> 0, walletAddress |-> NullWallet]

\* ---------------------------------------------------------------- records
NewMatch(mid, p1, p2) ==
  [id |-> mid, player1 |-> p1, player2 |-> p2, winner |-> NullPlayer,
   score1 |-> NullScore, score2 |-> NullScore, status |-> "pending",
   pendingResults |-> <<>>, completedBy |-> "none"]

NullBracket ==
  [bracketSize |-> 0, totalRounds |-> 0, currentRound |-> 0, rounds |-> <<>>,
   playersWithByes |-> <<>>, isComplete |-> FALSE, winner |-> NullPlayer]

\* The slot of the tournament id when no tournament is stored under it.
NoTournament ==
  [exists |-> FALSE, status |-> "none", participants |-> <<>>,
   bracket |-> NullBracket, winner |-> NullPlayer, finishedAt |-> FALSE]

NewTournament ==
  [exists |-> TRUE, status |-> "registration", participants |-> <<>>,
   bracket |-> NullBracket, winner |-> NullPlayer, finishedAt |-> FALSE]

\* A handler's outcome: the HTTP status, the document it leaves persisted,
\* and the wallet whose statistics it updated (NullWallet: none).
Resp(code, t, w) == [code |-> code, error |-> "", t |-> t, statsFor |-> w]
\* An error answer: the handler returns before it writes.  error names the
\* message of the response.
Fail(code, error, t) == [code |-> code, error |-> error, t |-> t, statsFor |-> NullWallet]

\* ------------------------------------------------------- sequence helpers
Swap(s, i, j) == [s EXCEPT ![i] = s[j], ![j] = s[i]]
RemoveAt(s, i) == SubSeq(s, 1, i - 1) \o SubSeq(s, i + 1, Len(s))

\* ---------------------------------------------------------- bracket builder
\* The draws of Math.random in shuffleArray: for every index i (0-based,
\* from length-1 down to 1) a j in 0..i.
ShuffleDraws(n) == {js \in [1..(n - 1) -> 0..(n - 1)] : \A i \in 1..(n - 1) : js[i] <= i}

RECURSIVE FisherYates(_, _, _)
FisherYates(shuffled, i, js) ==
  IF i <= 0 THEN shuffled
  ELSE FisherYates(Swap(shuffled, i + 1, js[i] + 1), i - 1, js)

shuffleArray(array, js) == FisherYates(array, Len(array) - 1, js)

\* The doubling loop with <= for <.
RECURSIVE BracketSizeFromInclusive(_, _)
BracketSizeFromInclusive(bracketSize, n) ==
  IF bracketSize <= n THEN BracketSizeFromInclusive(bracketSize * 2, n) ELSE bracketSize

RECURSIVE BracketSizeFrom(_, _)
BracketSizeFrom(bracketSize, n) ==
  IF bracketSize < n THEN BracketSizeFrom(bracketSize * 2, n) ELSE bracketSize

BracketSize(n) == BracketSizeFrom(1, n)

RECURSIVE Log2(_)
Log2(n) == IF n <= 1 THEN 0 ELSE 1 + Log2(n \div 2)

\* The draws of Math.random in the bye loop: draw k picks an index into a
\* list that has already lost k-1 players.
ByeDraws(n, byes) == {rs \in [1..byes -> 0..(n - 1)] : \A k \in 1..byes : rs[k] <= n - k}

\* The bye loop reading the player without splicing it out.
RECURSIVE TakeByesNoSplice(_, _, _, _, _)
TakeByesNoSplice(playersCopy, playersWithByes, k, byes, rs) ==
  IF k > byes THEN [pool |-> playersCopy, byes |-> playersWithByes]
  ELSE TakeByesNoSplice(playersCopy,
                        Append(playersWithByes, playersCopy[rs[k] + 1]), k + 1, byes, rs)

RECURSIVE TakeByes(_, _, _, _, _)
TakeByes(playersCopy, playersWithByes, k, byes, rs) ==
  IF k > byes THEN [pool |-> playersCopy, byes |-> playersWithByes]
  ELSE TakeByes(RemoveAt(playersCopy, rs[k] + 1),
                Append(playersWithByes, playersCopy[rs[k] + 1]), k + 1, byes, rs)

\* The pairing loop with i + 2 < length for i + 1 < length.
PairUpShort(players, roundNo) ==
  [k \in 1..((Len(players) - 1) \div 2) |->
     NewMatch(<<roundNo, k>>, players[2 * k - 1], players[2 * k])]

\* Pairing from the two ends of the list inward.
PairUpFolded(players, roundNo) ==
  [k \in 1..(Len(players) \div 2) |->
     NewMatch(<<roundNo, k>>, players[k], players[Len(players) + 1 - k])]

\* Consecutive pairing; a last player without a partner gets no match.
PairUp(players, roundNo) ==
  [k \in 1..(Len(players) \div 2) |->
     NewMatch(<<roundNo, k>>, players[2 * k - 1], players[2 * k])]

createSingleEliminationBracket(players, js, rs) ==
  LET shuffledPlayers == shuffleArray(players, js)
      bracketSize == BracketSize(Len(shuffledPlayers))
      byes == bracketSize - Len(shuffledPlayers)
      split == TakeByes(shuffledPlayers, <<>>, 1, byes, rs)
  IN [bracketSize |-> bracketSize,
      totalRounds |-> Log2(bracketSize),
      currentRound |-> 1,
      rounds |-> <<PairUp(split.pool, 1)>>,
      playersWithByes |-> split.byes,
      isComplete |-> FALSE,
      winner |-> NullPlayer]

\* ------------------------------------------------------------- match lookup
Min(S) == CHOOSE x \in S : \A y \in S : x <= y

\* The loop over bracket.rounds with find / findIndex: the first round that
\* holds a match of that id, and the first such match in it (0: none).
FindRound(rounds, matchId) ==
  LET hits == {i \in 1..Len(rounds) : \E k \in 1..Len(rounds[i]) : rounds[i][k].id = matchId}
  IN IF hits = {} THEN 0 ELSE Min(hits)

FindIndex(round, matchId) == Min({k \in 1..Len(round) : round[k].id = matchId})

SetMatch(t, r, k, m) == [t EXCEPT !.bracket.rounds[r][k] = m]

\* ------------------------------------------------------- round advancement
\* checkAndAdvanceRound appending the next round without counting it.
checkAndAdvanceRoundNoIncrement(t, currentRoundIndex) ==
  LET currentRound == t.bracket.rounds[currentRoundIndex + 1]
      allMatchesCompleted == \A k \in 1..Len(currentRound) : currentRound[k].status = "completed"
      winners == [k \in 1..Len(currentRound) |-> currentRound[k].winner]
      advancingPlayers == IF currentRoundIndex = 0 THEN winners \o t.bracket.playersWithByes
                          ELSE winners
      drained == IF currentRoundIndex = 0 THEN [t EXCEPT !.bracket.playersWithByes = <<>>]
                 ELSE t
  IN IF ~allMatchesCompleted THEN Resp(200, t, NullWallet)
     ELSE IF Len(advancingPlayers) = 1
       THEN Resp(200, [drained EXCEPT !.bracket.isComplete = TRUE,
                                      !.bracket.winner = advancingPlayers[1],
                                      !.status = "finished",
                                      !.finishedAt = TRUE,
                                      !.winner = advancingPlayers[1]],
                 advancingPlayers[1].walletAddress)
     ELSE IF currentRoundIndex + 1 = t.bracket.currentRound
       THEN Resp(200, [drained EXCEPT !.bracket.rounds = Append(@, PairUp(advancingPlayers, t.bracket.currentRound + 1))],
                 NullWallet)
     ELSE Resp(200, drained, NullWallet)

\* checkAndAdvanceRound finishing the bracket and not the tournament.
checkAndAdvanceRoundBracketOnly(t, currentRoundIndex) ==
  LET currentRound == t.bracket.rounds[currentRoundIndex + 1]
      allMatchesCompleted == \A k \in 1..Len(currentRound) : currentRound[k].status = "completed"
      winners == [k \in 1..Len(currentRound) |-> currentRound[k].winner]
      advancingPlayers == IF currentRoundIndex = 0 THEN winners \o t.bracket.playersWithByes
                          ELSE winners
      drained == IF currentRoundIndex = 0 THEN [t EXCEPT !.bracket.playersWithByes = <<>>]
                 ELSE t
  IN IF ~allMatchesCompleted THEN Resp(200, t, NullWallet)
     ELSE IF Len(advancingPlayers) = 1
       THEN Resp(200, [drained EXCEPT !.bracket.isComplete = TRUE,
                                      !.bracket.winner = advancingPlayers[1]],
                 advancingPlayers[1].walletAddress)
     ELSE IF currentRoundIndex + 1 = t.bracket.currentRound
       THEN Resp(200, [drained EXCEPT !.bracket.currentRound = @ + 1,
                                      !.bracket.rounds = Append(@, PairUp(advancingPlayers, t.bracket.currentRound + 1))],
                 NullWallet)
     ELSE Resp(200, drained, NullWallet)

\* checkAndAdvanceRound without the clearing of bracket.playersWithByes.
checkAndAdvanceRoundKeepsByes(t, currentRoundIndex) ==
  LET currentRound == t.bracket.rounds[currentRoundIndex + 1]
      allMatchesCompleted == \A k \in 1..Len(currentRound) : currentRound[k].status = "completed"
      winners == [k \in 1..Len(currentRound) |-> currentRound[k].winner]
      advancingPlayers == IF currentRoundIndex = 0 THEN winners \o t.bracket.playersWithByes
                          ELSE winners
  IN IF ~allMatchesCompleted THEN Resp(200, t, NullWallet)
     ELSE IF Len(advancingPlayers) = 1
       THEN Resp(200, [t EXCEPT !.bracket.isComplete = TRUE,
                                !.bracket.winner = advancingPlayers[1],
                                !.status = "finished",
                                !.finishedAt = TRUE,
                                !.winner = advancingPlayers[1]],
                 advancingPlayers[1].walletAddress)
     ELSE IF currentRoundIndex + 1 = t.bracket.currentRound
       THEN Resp(200, [t EXCEPT !.bracket.currentRound = @ + 1,
                                !.bracket.rounds = Append(@, PairUp(advancingPlayers, t.bracket.currentRound + 1))],
                 NullWallet)
     ELSE Resp(200, t, NullWallet)

\* checkAndAdvanceRound without the comparison with bracket.currentRound.
checkAndAdvanceRoundUnguarded(t, currentRoundIndex) ==
  LET currentRound == t.bracket.rounds[currentRoundIndex + 1]
      allMatchesCompleted == \A k \in 1..Len(currentRound) : currentRound[k].status = "completed"
      winners == [k \in 1..Len(currentRound) |-> currentRound[k].winner]
      advancingPlayers == IF currentRoundIndex = 0 THEN winners \o t.bracket.playersWithByes
                          ELSE winners
      drained == IF currentRoundIndex = 0 THEN [t EXCEPT !.bracket.playersWithByes = <<>>]
                 ELSE t
  IN IF ~allMatchesCompleted THEN Resp(200, t, NullWallet)
     ELSE IF Len(advancingPlayers) = 1
       THEN Resp(200, [drained EXCEPT !.bracket.isComplete = TRUE,
                                      !.bracket.winner = advancingPlayers[1],
                                      !.status = "finished",
                                      !.finishedAt = TRUE,
                                      !.winner = advancingPlayers[1]],
                 advancingPlayers[1].walletAddress)
     ELSE Resp(200, [drained EXCEPT !.bracket.currentRound = @ + 1,
                                    !.bracket.rounds = Append(@, PairUp(advancingPlayers, t.bracket.currentRound + 1))],
               NullWallet)

\* currentRoundIndex is the 0-based index the handlers pass.  An empty
\* playersWithByes array is truthy, so the bye branch runs whenever the
\* index is 0.
checkAndAdvanceRound(t, currentRoundIndex) ==
  LET currentRound == t.bracket.rounds[currentRoundIndex + 1]
      allMatchesCompleted == \A k \in 1..Len(currentRound) : currentRound[k].status = "completed"
      winners == [k \in 1..Len(currentRound) |-> currentRound[k].winner]
      advancingPlayers == IF currentRoundIndex = 0 THEN winners \o t.bracket.playersWithByes
                          ELSE winners
      drained == IF currentRoundIndex = 0 THEN [t EXCEPT !.bracket.playersWithByes = <<>>]
                 ELSE t
  IN IF ~allMatchesCompleted THEN Resp(200, t, NullWallet)
     ELSE IF Len(advancingPlayers) = 1
       THEN Resp(200, [drained EXCEPT !.bracket.isComplete = TRUE,
                                      !.bracket.winner = advancingPlayers[1],
                                      !.status = "finished",
                                      !.finishedAt = TRUE,
                                      !.winner = advancingPlayers[1]],
                 advancingPlayers[1].walletAddress)
     ELSE IF currentRoundIndex + 1 = t.bracket.currentRound
       THEN Resp(200, [drained EXCEPT !.bracket.currentRound = @ + 1,
                                      !.bracket.rounds = Append(@, PairUp(advancingPlayers, t.bracket.currentRound + 1))],
                 NullWallet)
     ELSE Resp(200, drained, NullWallet)

\* ------------------------------------------------------------- statistics
\* updateUserStats on the registry globalUsers (keyed by user; the key of
\* the file is the lower-case wallet address).
\* updateUserStats without the per-game win counter.
updateUserStatsNoGameWins(globalUsers, walletAddress, isWinner) ==
  LET hits == {u \in DOMAIN globalUsers :
                 ToLowerCase(WalletOf(u)) = ToLowerCase(walletAddress)}
  IN IF hits = {} THEN globalUsers
     ELSE LET user == CHOOSE u \in hits : TRUE
          IN [globalUsers EXCEPT
                ![user].totalWins = IF isWinner THEN @ + 1 ELSE @,
                ![user].gameStats.tournaments = @ + 1]

updateUserStats(globalUsers, walletAddress, isWinner) ==
  LET hits == {u \in DOMAIN globalUsers :
                 ToLowerCase(WalletOf(u)) = ToLowerCase(walletAddress)}
  IN IF hits = {} THEN globalUsers
     ELSE LET user == CHOOSE u \in hits : TRUE
          IN [globalUsers EXCEPT
                ![user].totalWins = IF isWinner THEN @ + 1 ELSE @,
                ![user].gameStats.wins = IF isWinner THEN @ + 1 ELSE @,
                ![user].gameStats.tournaments = @ + 1]

\* ---------------------------------------------------------------- lifecycle
\* POST /games/:gameId/tournaments ; the new tournament gets an id of its
\* own, so a tournament already stored stays as it is and the slot is
\* taken only when it is free.
createTournament(t, hasName) ==
  IF ~hasName THEN Fail(400, "nameRequired", t)
  ELSE IF t.exists THEN Resp(201, t, NullWallet)
  ELSE Resp(201, NewTournament, NullWallet)

\* register with the duplicate check comparing the addresses as written.
registerParticipantCaseSensitive(t, walletAddress) ==
  IF walletAddress = NullWallet THEN Fail(400, "walletRequired", t)
  ELSE IF ~\E u \in Users : ToLowerCase(WalletOf(u)) = ToLowerCase(walletAddress) THEN Fail(400, "notGloballyRegistered", t)
  ELSE IF ~t.exists THEN Fail(404, "tournamentNotFound", t)
  ELSE IF t.status # "registration" THEN Fail(400, "registrationClosed", t)
  ELSE IF \E i \in 1..Len(t.participants) : t.participants[i].walletAddress = walletAddress
    THEN Fail(400, "alreadyRegistered", t)
  ELSE LET user == CHOOSE u \in Users : ToLowerCase(WalletOf(u)) = ToLowerCase(walletAddress)
       IN Resp(201, [t EXCEPT !.participants = Append(@, Participant(user))], NullWallet)

\* POST .../register
registerParticipant(t, walletAddress) ==
  IF walletAddress = NullWallet THEN Fail(400, "walletRequired", t)
  ELSE IF ~\E u \in Users : ToLowerCase(WalletOf(u)) = ToLowerCase(walletAddress) THEN Fail(400, "notGloballyRegistered", t)
  ELSE IF ~t.exists THEN Fail(404, "tournamentNotFound", t)
  ELSE IF t.status # "registration" THEN Fail(400, "registrationClosed", t)
  ELSE IF \E i \in 1..Len(t.participants) :
            ToLowerCase(t.participants[i].walletAddress) = ToLowerCase(walletAddress)
    THEN Fail(400, "alreadyRegistered", t)
  ELSE LET user == CHOOSE u \in Users : ToLowerCase(WalletOf(u)) = ToLowerCase(walletAddress)
       IN Resp(201, [t EXCEPT !.participants = Append(@, Participant(user))], NullWallet)

\* unregister without the status check.
unregisterParticipantAnyStatus(t, walletAddress) ==
  IF walletAddress = NullWallet THEN Fail(400, "walletRequired", t)
  ELSE IF ~t.exists THEN Fail(404, "tournamentNotFound", t)
  ELSE LET hits == {i \in 1..Len(t.participants) :
                      ToLowerCase(t.participants[i].walletAddress) = ToLowerCase(walletAddress)}
       IN IF hits = {} THEN Fail(400, "notRegistered", t)
          ELSE Resp(200, [t EXCEPT !.participants = RemoveAt(@, Min(hits))], NullWallet)

\* POST .../unregister
unregisterParticipant(t, walletAddress) ==
  IF walletAddress = NullWallet THEN Fail(400, "walletRequired", t)
  ELSE IF ~t.exists THEN Fail(404, "tournamentNotFound", t)
  ELSE IF t.status # "registration" THEN Fail(400, "registrationClosed", t)
  ELSE LET hits == {i \in 1..Len(t.participants) :
                      ToLowerCase(t.participants[i].walletAddress) = ToLowerCase(walletAddress)}
       IN IF hits = {} THEN Fail(400, "notRegistered", t)
          ELSE Resp(200, [t EXCEPT !.participants = RemoveAt(@, Min(hits))], NullWallet)

\* start without the check of the status.
startTournamentAnyStatus(t, js, rs) ==
  IF ~t.exists THEN Fail(404, "tournamentNotFound", t)
  ELSE IF Len(t.participants) < 2 THEN Fail(400, "tooFewPlayers", t)
  ELSE Resp(200, [t EXCEPT !.status = "started",
                           !.bracket = createSingleEliminationBracket(t.participants, js, rs)],
            NullWallet)

\* POST .../start ; js and rs are the draws of Math.random
startTournament(t, js, rs) ==
  IF ~t.exists THEN Fail(404, "tournamentNotFound", t)
  ELSE IF Len(t.participants) < 2 THEN Fail(400, "tooFewPlayers", t)
  ELSE IF t.status = "started" THEN Fail(400, "alreadyStarted", t)
  ELSE Resp(200, [t EXCEPT !.status = "started",
                           !.bracket = createSingleEliminationBracket(t.participants, js, rs)],
            NullWallet)

\* POST .../reset (clear all participants)
resetTournament(t) ==
  IF ~t.exists THEN Fail(404, "tournamentNotFound", t)
  ELSE IF t.status # "registration" THEN Fail(400, "notInRegistration", t)
  ELSE Resp(200, [t EXCEPT !.participants = <<>>, !.bracket = NullBracket,
                           !.winner = NullPlayer, !.finishedAt = FALSE], NullWallet)

\* DELETE /games/:gameId/tournaments/:tournamentId
deleteTournament(t) ==
  IF ~t.exists THEN Fail(404, "tournamentNotFound", t) ELSE Resp(200, NoTournament, NullWallet)

\* POST .../cancel
cancelTournament(t) ==
  IF ~t.exists THEN Fail(404, "tournamentNotFound", t)
  ELSE IF t.status = "finished" THEN Fail(400, "alreadyFinished", t)
  ELSE Resp(200, NoTournament, NullWallet)

\* force-complete that leaves the bracket as it is.
forceCompleteTournamentOnly(t, winnerId) ==
  IF ~t.exists THEN Fail(404, "tournamentNotFound", t)
  ELSE IF winnerId = 0 THEN Fail(400, "winnerRequired", t)
  ELSE LET hits == {i \in 1..Len(t.participants) : t.participants[i].id = winnerId}
       IN IF hits = {} THEN Fail(400, "winnerNotParticipant", t)
          ELSE LET winner == t.participants[Min(hits)]
               IN Resp(200,
                       [t EXCEPT !.status = "finished", !.finishedAt = TRUE, !.winner = winner],
                       winner.walletAddress)

\* POST .../force-complete ; winnerId 0 is an absent id
forceComplete(t, winnerId) ==
  IF ~t.exists THEN Fail(404, "tournamentNotFound", t)
  ELSE IF winnerId = 0 THEN Fail(400, "winnerRequired", t)
  ELSE LET hits == {i \in 1..Len(t.participants) : t.participants[i].id = winnerId}
       IN IF hits = {} THEN Fail(400, "winnerNotParticipant", t)
          ELSE LET winner == t.participants[Min(hits)]
                   done == [t EXCEPT !.status = "finished", !.finishedAt = TRUE, !.winner = winner]
               IN Resp(200,
                       IF t.bracket # NullBracket
                         THEN [done EXCEPT !.bracket.isComplete = TRUE, !.bracket.winner = winner]
                         ELSE done,
                       winner.walletAddress)

\* ------------------------------------------------------------ reconciler
SubmittedResult(submittedBy, score1, score2) ==
  [submittedBy |-> submittedBy, score1 |-> ParseInt(score1),
   score2 |-> ParseInt(score2), conflict |-> FALSE]

\* reconcile with the round advancement left out after an agreement.
reconcileNoAdvance(t, r, k, pushed) ==
  IF Len(pushed.pendingResults) = 2
    THEN LET result1 == pushed.pendingResults[1]
             result2 == pushed.pendingResults[2]
         IN IF result1.score1 = result2.score1 /\ result1.score2 = result2.score2
              THEN Resp(200,
                        SetMatch(t, r, k,
                          [pushed EXCEPT !.score1 = result1.score1,
                                         !.score2 = result1.score2,
                                         !.winner = IF result1.score1 > result1.score2
                                                      THEN pushed.player1 ELSE pushed.player2,
                                         !.status = "completed",
                                         !.completedBy = "auto"]),
                        NullWallet)
              ELSE Resp(200,
                        SetMatch(t, r, k,
                          [pushed EXCEPT !.pendingResults =
                             [i \in 1..Len(@) |-> [@[i] EXCEPT !.conflict = TRUE]]]),
                        NullWallet)
    ELSE Resp(200, SetMatch(t, r, k, pushed), NullWallet)

\* reconcile with the conflict flag set on the later result only.
reconcileFlagsLast(t, r, k, pushed) ==
  IF Len(pushed.pendingResults) = 2
    THEN LET result1 == pushed.pendingResults[1]
             result2 == pushed.pendingResults[2]
         IN IF result1.score1 = result2.score1 /\ result1.score2 = result2.score2
              THEN checkAndAdvanceRound(
                     SetMatch(t, r, k,
                       [pushed EXCEPT !.score1 = result1.score1,
                                      !.score2 = result1.score2,
                                      !.winner = IF result1.score1 > result1.score2
                                                   THEN pushed.player1 ELSE pushed.player2,
                                      !.status = "completed",
                                      !.completedBy = "auto"]),
                     r - 1)
              ELSE Resp(200,
                        SetMatch(t, r, k, [pushed EXCEPT !.pendingResults[2].conflict = TRUE]),
                        NullWallet)
    ELSE Resp(200, SetMatch(t, r, k, pushed), NullWallet)

\* reconcile flagging a conflict on a submission that is not the second.
reconcileFlagsFirst(t, r, k, pushed) ==
  IF Len(pushed.pendingResults) = 2
    THEN LET result1 == pushed.pendingResults[1]
             result2 == pushed.pendingResults[2]
         IN IF result1.score1 = result2.score1 /\ result1.score2 = result2.score2
              THEN checkAndAdvanceRound(
                     SetMatch(t, r, k,
                       [pushed EXCEPT !.score1 = result1.score1,
                                      !.score2 = result1.score2,
                                      !.winner = IF result1.score1 > result1.score2
                                                   THEN pushed.player1 ELSE pushed.player2,
                                      !.status = "completed",
                                      !.completedBy = "auto"]),
                     r - 1)
              ELSE Resp(200,
                        SetMatch(t, r, k,
                          [pushed EXCEPT !.pendingResults =
                             [i \in 1..Len(@) |-> [@[i] EXCEPT !.conflict = TRUE]]]),
                        NullWallet)
    ELSE Resp(200,
              SetMatch(t, r, k,
                [pushed EXCEPT !.pendingResults =
                   [i \in 1..Len(@) |-> [@[i] EXCEPT !.conflict = TRUE]]]),
              NullWallet)

\* Lines 1654-1683: what the handler does once the result is pushed.
reconcile(t, r, k, pushed) ==
  IF Len(pushed.pendingResults) = 2
    THEN LET result1 == pushed.pendingResults[1]
             result2 == pushed.pendingResults[2]
         IN IF result1.score1 = result2.score1 /\ result1.score2 = result2.score2
              THEN checkAndAdvanceRound(
                     SetMatch(t, r, k,
                       [pushed EXCEPT !.score1 = result1.score1,
                                      !.score2 = result1.score2,
                                      !.winner = IF result1.score1 > result1.score2
                                                   THEN pushed.player1 ELSE pushed.player2,
                                      !.status = "completed",
                                      !.completedBy = "auto"]),
                     r - 1)
              ELSE Resp(200,
                        SetMatch(t, r, k,
                          [pushed EXCEPT !.pendingResults =
                             [i \in 1..Len(@) |-> [@[i] EXCEPT !.conflict = TRUE]]]),
                        NullWallet)
    ELSE Resp(200, SetMatch(t, r, k, pushed), NullWallet)

\* The check of line 1628 left out.
alreadyCompletedUnchecked(targetMatch) == FALSE

\* Line 1628: the match was already decided.
alreadyCompleted(targetMatch) == targetMatch.status = "completed"

\* The check of line 1632 left out.
notPartOfMatchUnchecked(targetMatch, submittedBy) == FALSE

\* Line 1632: the submitter is neither player of the match.
notPartOfMatch(targetMatch, submittedBy) ==
  submittedBy # targetMatch.player1.id /\ submittedBy # targetMatch.player2.id

\* The check of line 1640 left out.
existingResultUnchecked(targetMatch, submittedBy) == FALSE

\* Line 1640: the submitter already has a pending result.
existingResult(targetMatch, submittedBy) ==
  \E i \in 1..Len(targetMatch.pendingResults) :
    targetMatch.pendingResults[i].submittedBy = submittedBy

\* submit-result writing the document before it answers the duplicate error.
submitResultStoresDuplicate(t, matchId, submittedBy, score1, score2) ==
  IF submittedBy = 0 \/ score1 = Undefined \/ score2 = Undefined THEN Fail(400, "fieldsRequired", t)
  ELSE IF StrictEquals(score1, score2) THEN Fail(400, "drawNotAllowed", t)
  ELSE IF ~t.exists THEN Fail(404, "tournamentNotFound", t)
  ELSE IF t.bracket = NullBracket THEN Fail(500, "internal", t)
  ELSE LET r == FindRound(t.bracket.rounds, matchId)
       IN IF r = 0 THEN Fail(404, "matchNotFound", t)
          ELSE LET k == FindIndex(t.bracket.rounds[r], matchId)
                   targetMatch == t.bracket.rounds[r][k]
               IN IF alreadyCompleted(targetMatch) THEN Fail(400, "alreadyCompleted", t)
                  ELSE IF notPartOfMatch(targetMatch, submittedBy) THEN Fail(403, "notInMatch", t)
                  ELSE IF existingResult(targetMatch, submittedBy)
                    THEN Fail(400, "duplicateSubmission",
                              SetMatch(t, r, k,
                                [targetMatch EXCEPT !.pendingResults =
                                   Append(@, SubmittedResult(submittedBy, score1, score2))]))
                  ELSE reconcile(t, r, k,
                         [targetMatch EXCEPT !.pendingResults =
                            Append(@, SubmittedResult(submittedBy, score1, score2))])

\* POST .../matches/:matchId/submit-result ; submittedBy 0 is an absent id.
\* A tournament without a bracket makes the handler throw on bracket.rounds:
\* the catch block answers 500 and nothing is written.
submitResult(t, matchId, submittedBy, score1, score2) ==
  IF submittedBy = 0 \/ score1 = Undefined \/ score2 = Undefined THEN Fail(400, "fieldsRequired", t)
  ELSE IF StrictEquals(score1, score2) THEN Fail(400, "drawNotAllowed", t)
  ELSE IF ~t.exists THEN Fail(404, "tournamentNotFound", t)
  ELSE IF t.bracket = NullBracket THEN Fail(500, "internal", t)
  ELSE LET r == FindRound(t.bracket.rounds, matchId)
       IN IF r = 0 THEN Fail(404, "matchNotFound", t)
          ELSE LET k == FindIndex(t.bracket.rounds[r], matchId)
                   targetMatch == t.bracket.rounds[r][k]
               IN IF alreadyCompleted(targetMatch) THEN Fail(400, "alreadyCompleted", t)
                  ELSE IF notPartOfMatch(targetMatch, submittedBy) THEN Fail(403, "notInMatch", t)
                  ELSE IF existingResult(targetMatch, submittedBy)
                    THEN Fail(400, "duplicateSubmission", t)
                  ELSE reconcile(t, r, k,
                         [targetMatch EXCEPT !.pendingResults =
                            Append(@, SubmittedResult(submittedBy, score1, score2))])

\* adminComplete with the pending results left in place.
adminCompleteKeepsPending(t, r, k, decided) ==
  checkAndAdvanceRound(
    SetMatch(t, r, k, [decided EXCEPT !.status = "completed", !.completedBy = "admin"]),
    r - 1)

\* Lines 1740-1746: the completion every accepted admin result ends with.
adminComplete(t, r, k, decided) ==
  checkAndAdvanceRound(
    SetMatch(t, r, k, [decided EXCEPT !.status = "completed",
                                      !.completedBy = "admin",
                                      !.pendingResults = <<>>]),
    r - 1)

\* The check of line 1732 left out.
invalidWinnerUnchecked(targetMatch, winnerId) == FALSE

\* Line 1732: the winner id is neither player's id.
invalidWinner(targetMatch, winnerId) ==
  winnerId # targetMatch.player1.id /\ winnerId # targetMatch.player2.id

\* POST .../matches/:matchId/result ; winnerId 0 is an absent id
adminSetResult(t, matchId, winnerId, score1, score2) ==
  IF ~t.exists THEN Fail(404, "tournamentNotFound", t)
  ELSE IF t.bracket = NullBracket THEN Fail(500, "internal", t)
  ELSE LET r == FindRound(t.bracket.rounds, matchId)
       IN IF r = 0 THEN Fail(404, "matchNotFound", t)
          ELSE LET k == FindIndex(t.bracket.rounds[r], matchId)
                   targetMatch == t.bracket.rounds[r][k]
               IN IF score1 # Undefined /\ score2 # Undefined
                    THEN adminComplete(t, r, k,
                           [targetMatch EXCEPT !.score1 = ParseInt(score1),
                                               !.score2 = ParseInt(score2),
                                               !.winner = IF ParseInt(score1) > ParseInt(score2)
                                                            THEN targetMatch.player1
                                                            ELSE targetMatch.player2])
                  ELSE IF winnerId # 0
                    THEN IF invalidWinner(targetMatch, winnerId)
                           THEN Fail(400, "invalidWinner", t)
                           ELSE adminComplete(t, r, k,
                                  [targetMatch EXCEPT !.winner = IF winnerId = targetMatch.player1.id
                                                                   THEN targetMatch.player1
                                                                   ELSE targetMatch.player2])
                  ELSE Fail(400, "winnerOrScoreRequired", t)

\* match reset that leaves a finished tournament finished.
resetMatchKeepsFinished(t, matchId) ==
  IF ~t.exists THEN Fail(404, "tournamentNotFound", t)
  ELSE IF t.bracket = NullBracket THEN Fail(500, "internal", t)
  ELSE LET r == FindRound(t.bracket.rounds, matchId)
       IN IF r = 0 THEN Fail(404, "matchNotFound", t)
          ELSE LET k == FindIndex(t.bracket.rounds[r], matchId)
                   targetMatch == t.bracket.rounds[r][k]
                   cleared == SetMatch(t, r, k,
                                [targetMatch EXCEPT !.winner = NullPlayer,
                                                    !.score1 = NullScore,
                                                    !.score2 = NullScore,
                                                    !.status = "pending",
                                                    !.completedBy = "none",
                                                    !.pendingResults = <<>>])
               IN IF targetMatch.status # "completed" THEN Fail(400, "notCompleted", t)
                  ELSE Resp(200, cleared, NullWallet)

\* match reset without the check that the match is completed.
resetMatchAnyStatus(t, matchId) ==
  IF ~t.exists THEN Fail(404, "tournamentNotFound", t)
  ELSE IF t.bracket = NullBracket THEN Fail(500, "internal", t)
  ELSE LET r == FindRound(t.bracket.rounds, matchId)
       IN IF r = 0 THEN Fail(404, "matchNotFound", t)
          ELSE LET k == FindIndex(t.bracket.rounds[r], matchId)
                   targetMatch == t.bracket.rounds[r][k]
                   cleared == SetMatch(t, r, k,
                                [targetMatch EXCEPT !.winner = NullPlayer,
                                                    !.score1 = NullScore,
                                                    !.score2 = NullScore,
                                                    !.status = "pending",
                                                    !.completedBy = "none",
                                                    !.pendingResults = <<>>])
               IN IF t.status = "finished"
                    THEN Resp(200, [cleared EXCEPT !.status = "started",
                                                   !.finishedAt = FALSE,
                                                   !.winner = NullPlayer,
                                                   !.bracket.isComplete = FALSE,
                                                   !.bracket.winner = NullPlayer],
                              NullWallet)
                  ELSE Resp(200, cleared, NullWallet)

\* POST .../matches/:matchId/reset
resetMatch(t, matchId) ==
  IF ~t.exists THEN Fail(404, "tournamentNotFound", t)
  ELSE IF t.bracket = NullBracket THEN Fail(500, "internal", t)
  ELSE LET r == FindRound(t.bracket.rounds, matchId)
       IN IF r = 0 THEN Fail(404, "matchNotFound", t)
          ELSE LET k == FindIndex(t.bracket.rounds[r], matchId)
                   targetMatch == t.bracket.rounds[r][k]
                   cleared == SetMatch(t, r, k,
                                [targetMatch EXCEPT !.winner = NullPlayer,
                                                    !.score1 = NullScore,
                                                    !.score2 = NullScore,
                                                    !.status = "pending",
                                                    !.completedBy = "none",
                                                    !.pendingResults = <<>>])
               IN IF targetMatch.status # "completed" THEN Fail(400, "notCompleted", t)
                  ELSE IF t.status = "finished"
                    THEN Resp(200, [cleared EXCEPT !.status = "started",
                                                   !.finishedAt = FALSE,
                                                   !.winner = NullPlayer,
                                                   !.bracket.isComplete = FALSE,
                                                   !.bracket.winner = NullPlayer],
                              NullWallet)
                  ELSE Resp(200, cleared, NullWallet)

\* ------------------------------------------------------------- conflicts
\* GET /tournament/conflicts, the route of the single-tournament server; its
\* submit-result, admin result and round advancement are the ones above,
\* line for line, on the same match records.
\* The loop over the rounds that lists every match with two pending results.
RECURSIVE ConflictsFromAnyPair(_, _, _)
ConflictsFromAnyPair(rounds, r, k) ==
  IF r > Len(rounds) THEN <<>>
  ELSE IF k > Len(rounds[r]) THEN ConflictsFromAnyPair(rounds, r + 1, 1)
  ELSE LET match == rounds[r][k]
       IN (IF Len(match.pendingResults) = 2
             THEN <<[matchId |-> match.id, round |-> r, player1 |-> match.player1,
                     player2 |-> match.player2, results |-> match.pendingResults]>>
             ELSE <<>>)
            \o ConflictsFromAnyPair(rounds, r, k + 1)

\* The two forEach loops from match k of round r on.
RECURSIVE ConflictsFrom(_, _, _)
ConflictsFrom(rounds, r, k) ==
  IF r > Len(rounds) THEN <<>>
  ELSE IF k > Len(rounds[r]) THEN ConflictsFrom(rounds, r + 1, 1)
  ELSE LET match == rounds[r][k]
       IN (IF /\ Len(match.pendingResults) = 2
              /\ \E i \in 1..Len(match.pendingResults) : match.pendingResults[i].conflict
             THEN <<[matchId |-> match.id, round |-> r, player1 |-> match.player1,
                     player2 |-> match.player2, results |-> match.pendingResults]>>
             ELSE <<>>)
            \o ConflictsFrom(rounds, r, k + 1)

listConflicts(t) ==
  IF ~t.exists THEN [code |-> 404, conflicts |-> <<>>]
  ELSE IF t.bracket = NullBracket THEN [code |-> 500, conflicts |-> <<>>]
  ELSE [code |-> 200, conflicts |-> ConflictsFrom(t.bracket.rounds, 1, 1)]

\* ------------------------------------------------------------ request inputs
RequestWallets == {Wallet(h, up) : h \in 0..MaxUsers, up \in BOOLEAN}
RequestIds == 0..MaxUsers
\* A round has at most MaxUsers \div 2 matches.
MatchIds == {<<r, k>> : r \in 1..Log2(BracketSize(MaxUsers)), k \in 1..(MaxUsers \div 2)}

\* The score pairs requests carry: player1 ahead, player2 ahead, a string
\* and a number of the same value, and the same number twice.
ScorePairs == {<<Num(1), Num(0)>>, <<Num(0), Num(1)>>, <<Str(1), Num(1)>>, <<Num(1), Num(1)>>}

\* The score fields of a submit-result body: a score pair, or a body that
\* lacks a score.
SubmitScores == ScorePairs \cup {<<Undefined, Num(1)>>}

\* The bodies of an admin result: a score pair, a winner id alone (0:
\* neither is given), a score pair together with a winner id, and a winner
\* id with one score only.
AdminBodies ==
  {[winnerId |-> 0, score1 |-> p[1], score2 |-> p[2]] : p \in ScorePairs}
    \cup {[winnerId |-> w, score1 |-> Undefined, score2 |-> Undefined] : w \in RequestIds}
    \cup {[winnerId |-> w, score1 |-> Num(1), score2 |-> Num(0)] : w \in RequestIds \ {0}}
    \cup {[winnerId |-> w, score1 |-> Undefined, score2 |-> Num(1)] : w \in RequestIds}

\* Participant ids are Date.now() at registration, so a new participant's id
\* is larger than every id in the list.  With ids standing for users, a user
\* registers only after the users of smaller number that are in the list.
\* Hex 0 is the address of nobody.
ClockAllows(t, w) ==
  w.hex = 0 \/ \A i \in 1..Len(t.participants) : t.participants[i].id <= w.hex

\* ------------------------------------------------------------------- state
\* tournament: the persisted tournament document.
\* inflight:   the requests that have read the document and not yet written
\*             it back, each with the copy it read.
\* globalUsers: the statistics of the registry globalUsers.json.
VARIABLES tournament, inflight, globalUsers

vars == <<tournament, inflight, globalUsers>>

Init ==
  /\ tournament = NoTournament
  /\ inflight = <<>>
  /\ globalUsers = [u \in Users |-> NewStats]

RECURSIVE SumWins(_, _)
SumWins(gu, n) == IF n = 0 THEN 0 ELSE gu[n].totalWins + SumWins(gu, n - 1)

\* The registry after a handler: the handlers that finish a tournament call
\* updateUserStats for the winner, before they write the document.
RecordStatsUpTo(resp, cap) ==
  /\ globalUsers' = IF resp.statsFor = NullWallet THEN globalUsers
                    ELSE updateUserStats(globalUsers, resp.statsFor, TRUE)
  /\ SumWins(globalUsers', Cardinality(DOMAIN globalUsers)) <= cap

RecordStats(resp) == RecordStatsUpTo(resp, MaxWins)

\* A handler that answers an error returns before it writes.
Accepted(resp) == resp.code \in {200, 201}

\* A handler that runs from its read to its write with no other request in
\* between: the document becomes what the handler leaves.
Serve(resp) ==
  /\ Accepted(resp)
  /\ tournament' = resp.t
  /\ RecordStats(resp)
  /\ UNCHANGED inflight

Create == \E hasName \in BOOLEAN : Serve(createTournament(tournament, hasName))

Register ==
  \E w \in RequestWallets :
    ClockAllows(tournament, w) /\ Serve(registerParticipant(tournament, w))

Unregister == \E w \in RequestWallets : Serve(unregisterParticipant(tournament, w))

Start ==
  \E js \in ShuffleDraws(Len(tournament.participants)) :
    \E rs \in ByeDraws(Len(tournament.participants),
                       BracketSize(Len(tournament.participants)) - Len(tournament.participants)) :
      Serve(startTournament(tournament, js, rs))

ResetTournament == Serve(resetTournament(tournament))

Delete == Serve(deleteTournament(tournament))

Cancel == Serve(cancelTournament(tournament))

ForceComplete == \E winnerId \in RequestIds : Serve(forceComplete(tournament, winnerId))

SubmitResult ==
  \E matchId \in MatchIds, submittedBy \in RequestIds, scores \in SubmitScores :
    Serve(submitResult(tournament, matchId, submittedBy, scores[1], scores[2]))

AdminSetResult ==
  \E matchId \in MatchIds, body \in AdminBodies :
    Serve(adminSetResult(tournament, matchId, body.winnerId, body.score1, body.score2))

ResetMatch == \E matchId \in MatchIds : Serve(resetMatch(tournament, matchId))

Next ==
  \/ Create
  \/ Register
  \/ Unregister
  \/ Start
  \/ ResetTournament
  \/ Delete
  \/ Cancel
  \/ ForceComplete
  \/ SubmitResult
  \/ AdminSetResult
  \/ ResetMatch

Spec == Init /\ [][Next]_vars

\* --------------------------------------------------------- overlapping requests
\* Every handler awaits readGames(), then runs without a break up to its
\* call of writeGames(), which serializes the whole document at once; the
\* file is replaced when that write lands.  A handler that answers an error
\* returns before it writes.  Between the read and the landing of the write
\* other requests are served.
Read(op, resp) ==
  /\ Len(inflight) < MaxInflight
  /\ Accepted(resp)
  /\ inflight' = Append(inflight, [op |-> op, snap |-> tournament, doc |-> resp.t])
  /\ RecordStats(resp)
  /\ UNCHANGED tournament

ConcWallets == {Wallet(h, up) : h \in 1..ConcUsers, up \in BOOLEAN}

ReadRegister ==
  \E w \in ConcWallets :
    ClockAllows(tournament, w) /\ Read("register", registerParticipant(tournament, w))

ReadStart ==
  \E js \in ShuffleDraws(Len(tournament.participants)) :
    \E rs \in ByeDraws(Len(tournament.participants),
                       BracketSize(Len(tournament.participants)) - Len(tournament.participants)) :
      Read("start", startTournament(tournament, js, rs))

ReadSubmitResult ==
  \E matchId \in MatchIds, submittedBy \in 1..ConcUsers, scores \in ScorePairs :
    Read("submitResult", submitResult(tournament, matchId, submittedBy, scores[1], scores[2]))

ReadAdminSetResult ==
  \E matchId \in MatchIds, body \in AdminBodies :
    Read("adminSetResult",
         adminSetResult(tournament, matchId, body.winnerId, body.score1, body.score2))

\* writeGames of request i lands: the file holds what that request wrote.
Write ==
  \E i \in 1..Len(inflight) :
    /\ tournament' = inflight[i].doc
    /\ inflight' = RemoveAt(inflight, i)
    /\ UNCHANGED globalUsers

NextConc ==
  \/ Create
  \/ ReadRegister
  \/ ReadStart
  \/ ReadSubmitResult
  \/ ReadAdminSetResult
  \/ Write

SpecConc == Init /\ [][NextConc]_vars

\* ------------------------------------------------------- the bracket builder
\* The bracket builder on its own: start on a tournament in registration
\* with 2..MaxPlayers participants, registered in the order of their ids,
\* under every outcome of Math.random.
InitBuilder ==
  /\ \E n \in 2..MaxPlayers :
       tournament = [NewTournament EXCEPT !.participants = [i \in 1..n |-> Participant(i)]]
  /\ inflight = <<>>
  /\ globalUsers = [u \in 1..MaxPlayers |-> NewStats]

NextBuilder == Start

SpecBuilder == InitBuilder /\ [][NextBuilder]_vars

\* ------------------------------------------------- a bracket of five, played
\* A tournament of PlayPlayers participants under the match operations:
\* with five, one first-round match and three byes, a second round of two
\* matches and a final.  Math.random is taken to leave the participants in
\* the order of the list (j = i in every swap) and to give the byes to the
\* first players; the other outcomes differ by a renaming of the players
\* only.  Players submit the pair 1:0, the admin enters 1:0 or 0:1.
InitPlay ==
  /\ tournament = [NewTournament EXCEPT
                     !.participants = [i \in 1..PlayPlayers |-> Participant(i)]]
  /\ inflight = <<>>
  /\ globalUsers = [u \in 1..PlayPlayers |-> NewStats]

PlayIds == 1..PlayPlayers
PlayMatchIds ==
  {<<r, k>> : r \in 1..Log2(BracketSize(PlayPlayers)), k \in 1..(PlayPlayers \div 2)}
PlayScores == {<<Num(1), Num(0)>>, <<Num(0), Num(1)>>}
PlaySubmitScores == {<<Num(1), Num(0)>>}
\* Admin results by score pair.
PlayBodies == {[winnerId |-> 0, score1 |-> p[1], score2 |-> p[2]] : p \in PlayScores}

PlayStart ==
  LET n == Len(tournament.participants)
  IN Serve(startTournament(tournament, [i \in 1..(n - 1) |-> i],
                           [k \in 1..(BracketSize(n) - n) |-> 0]))

PlaySubmitResult ==
  \E matchId \in PlayMatchIds, submittedBy \in PlayIds, scores \in PlaySubmitScores :
    Serve(submitResult(tournament, matchId, submittedBy, scores[1], scores[2]))

PlayAdminSetResult ==
  \E matchId \in PlayMatchIds, body \in PlayBodies :
    Serve(adminSetResult(tournament, matchId, body.winnerId, body.score1, body.score2))

PlayResetMatch == \E matchId \in PlayMatchIds : Serve(resetMatch(tournament, matchId))

PlayForceComplete == \E winnerId \in PlayIds : Serve(forceComplete(tournament, winnerId))

NextPlay ==
  \/ PlayStart
  \/ PlaySubmitResult
  \/ PlayAdminSetResult
  \/ PlayResetMatch
  \/ PlayForceComplete

SpecPlay == InitPlay /\ [][NextPlay]_vars

\* ================================================================ properties
HasBracket(t) == t.exists /\ t.bracket # NullBracket

\* The places <<round, index>> of the matches of t's bracket.
Positions(t) ==
  {p \in (1..Len(t.bracket.rounds)) \X (1..MaxUsers) : p[2] <= Len(t.bracket.rounds[p[1]])}

MatchAt(t, p) == t.bracket.rounds[p[1]][p[2]]

StatusRank(status) ==
  CASE status = "registration" -> 1
    [] status = "started" -> 2
    [] status = "finished" -> 3
    [] OTHER -> 0

\* C1: every completed match has one of its two players as winner and has
\* both scores set and different from each other.
C1_CompletedMatchDecided ==
  \A p \in Positions(tournament) :
    LET m == MatchAt(tournament, p)
    IN m.status = "completed" =>
         /\ m.winner \in {m.player1, m.player2}
         /\ m.score1 # NullScore
         /\ m.score2 # NullScore
         /\ m.score1 # m.score2

\* C2: requests on the tournament document are serialized: no request is
\* between its read and its write while the document it read has been
\* replaced by another request's write.
C2_WritesSerialized ==
  \A i \in 1..Len(inflight) : inflight[i].snap = tournament

\* C3: the status of an existing tournament never moves to an earlier value,
\* except that resetMatch may revert finished to started.
C3_StatusMonotonic ==
  [][(/\ tournament.exists
      /\ tournament'.exists
      /\ StatusRank(tournament'.status) < StatusRank(tournament.status))
       => (/\ tournament.status = "finished"
           /\ tournament'.status = "started"
           /\ \E matchId \in MatchIds :
                /\ Accepted(resetMatch(tournament, matchId))
                /\ tournament' = resetMatch(tournament, matchId).t)]_vars

\* The place of the match a request names, <<0, 0>> when there is none.
TargetPos(t, matchId) ==
  IF HasBracket(t) /\ FindRound(t.bracket.rounds, matchId) # 0
    THEN <<FindRound(t.bracket.rounds, matchId),
           FindIndex(t.bracket.rounds[FindRound(t.bracket.rounds, matchId)], matchId)>>
    ELSE <<0, 0>>

\* A submit-result body with a submitter and two scores that are not the
\* same JSON value.
WellFormed(submittedBy, scores) ==
  /\ submittedBy # 0
  /\ scores[1] # Undefined
  /\ scores[2] # Undefined
  /\ ~(scores[1].type = scores[2].type /\ scores[1].val = scores[2].val)

\* The match waits for its second result, and this request is it: from the
\* player who has not submitted yet.
IsSecondSubmission(m, submittedBy) ==
  /\ m.status = "pending"
  /\ Len(m.pendingResults) = 1
  /\ submittedBy \in {m.player1.id, m.player2.id}
  /\ m.pendingResults[1].submittedBy # submittedBy

SamePair(result, scores) ==
  result.score1 = ParseInt(scores[1]) /\ result.score2 = ParseInt(scores[2])

InConflict(m) ==
  /\ m.status # "completed"
  /\ Len(m.pendingResults) = 2
  /\ \A i \in 1..2 : m.pendingResults[i].conflict

\* C4: a second submission that carries the pair of the first completes the
\* match in the same operation: scores are the agreed pair, the winner is the
\* player with the higher score, completedBy is auto, and the document
\* written is the round advancement of the document with that match completed.
C4_AgreeingSubmissionCompletes ==
  \A matchId \in MatchIds, submittedBy \in RequestIds, scores \in SubmitScores :
    LET p == TargetPos(tournament, matchId)
    IN (/\ p # <<0, 0>>
        /\ WellFormed(submittedBy, scores)
        /\ IsSecondSubmission(MatchAt(tournament, p), submittedBy)
        /\ SamePair(MatchAt(tournament, p).pendingResults[1], scores))
       => LET m == MatchAt(tournament, p)
              resp == submitResult(tournament, matchId, submittedBy, scores[1], scores[2])
              done == MatchAt(resp.t, p)
          IN /\ resp.code = 200
             /\ done.status = "completed"
             /\ done.score1 = ParseInt(scores[1])
             /\ done.score2 = ParseInt(scores[2])
             /\ (done.score1 > done.score2 => done.winner = m.player1)
             /\ (done.score2 > done.score1 => done.winner = m.player2)
             /\ done.completedBy = "auto"
             /\ done.player1 = m.player1
             /\ done.player2 = m.player2
             /\ resp.t = checkAndAdvanceRound(SetMatch(tournament, p[1], p[2], done), p[1] - 1).t

\* C4 witness: a match completed by agreement, player1 ahead, after which
\* the next round was opened.
C4_Witness ==
  /\ HasBracket(tournament)
  /\ Len(tournament.bracket.rounds) = 2
  /\ \E p \in Positions(tournament) :
       /\ p[1] = 1
       /\ MatchAt(tournament, p).completedBy = "auto"
       /\ MatchAt(tournament, p).status = "completed"
       /\ MatchAt(tournament, p).score1 > MatchAt(tournament, p).score2
       /\ MatchAt(tournament, p).winner = MatchAt(tournament, p).player1

\* C5: a second submission that carries another pair than the first flags
\* both pending results as conflict and changes nothing else: the match stays
\* pending without winner and scores, and rounds, currentRound and the
\* tournament status are as before.
C5_DisagreeingSubmissionConflicts ==
  \A matchId \in MatchIds, submittedBy \in RequestIds, scores \in SubmitScores :
    LET p == TargetPos(tournament, matchId)
    IN (/\ p # <<0, 0>>
        /\ WellFormed(submittedBy, scores)
        /\ IsSecondSubmission(MatchAt(tournament, p), submittedBy)
        /\ ~SamePair(MatchAt(tournament, p).pendingResults[1], scores))
       => LET m == MatchAt(tournament, p)
              resp == submitResult(tournament, matchId, submittedBy, scores[1], scores[2])
              after == MatchAt(resp.t, p)
          IN /\ resp.code = 200
             /\ after.pendingResults =
                  <<[m.pendingResults[1] EXCEPT !.conflict = TRUE],
                    [submittedBy |-> submittedBy, score1 |-> ParseInt(scores[1]),
                     score2 |-> ParseInt(scores[2]), conflict |-> TRUE]>>
             /\ after.status = "pending"
             /\ after.winner = NullPlayer
             /\ after.score1 = NullScore
             /\ after.score2 = NullScore
             /\ resp.t = SetMatch(tournament, p[1], p[2], [m EXCEPT !.pendingResults = after.pendingResults])
             /\ Len(resp.t.bracket.rounds) = Len(tournament.bracket.rounds)
             /\ resp.t.bracket.currentRound = tournament.bracket.currentRound
             /\ resp.t.status = tournament.status

\* C5 witness: a match in conflict.
C5_Witness ==
  /\ HasBracket(tournament)
  /\ \E p \in Positions(tournament) :
       /\ InConflict(MatchAt(tournament, p))
       /\ MatchAt(tournament, p).pendingResults[1].score1 # MatchAt(tournament, p).pendingResults[2].score1

\* C6 as claimed: a well-formed submission by somebody who is not a player
\* of the match is answered with the authorization error and changes nothing.
C6_NonPlayerGetsAuthorizationError ==
  \A matchId \in MatchIds, submittedBy \in RequestIds, scores \in SubmitScores :
    LET p == TargetPos(tournament, matchId)
    IN (/\ p # <<0, 0>>
        /\ WellFormed(submittedBy, scores)
        /\ submittedBy # MatchAt(tournament, p).player1.id
        /\ submittedBy # MatchAt(tournament, p).player2.id)
       => LET resp == submitResult(tournament, matchId, submittedBy, scores[1], scores[2])
          IN resp.code = 403 /\ resp.t = tournament

\* C6 as amended: a well-formed submission by somebody who is not a player
\* of the match fails and changes nothing; the answer is the authorization
\* error while the match is not completed, and the already-completed error
\* once it is.
C6_NonPlayerRejected ==
  \A matchId \in MatchIds, submittedBy \in RequestIds, scores \in SubmitScores :
    LET p == TargetPos(tournament, matchId)
    IN (/\ p # <<0, 0>>
        /\ WellFormed(submittedBy, scores)
        /\ submittedBy # MatchAt(tournament, p).player1.id
        /\ submittedBy # MatchAt(tournament, p).player2.id)
       => LET resp == submitResult(tournament, matchId, submittedBy, scores[1], scores[2])
          IN /\ resp.t = tournament
             /\ IF MatchAt(tournament, p).status = "completed"
                  THEN resp.code = 400 /\ resp.error = "alreadyCompleted"
                  ELSE resp.code = 403 /\ resp.error = "notInMatch"

\* C6 witness: a pending match that already holds a result, and a
\* participant of the tournament outside of it whose submission is refused
\* with the authorization error.
C6_Witness ==
  /\ HasBracket(tournament)
  /\ \E p \in Positions(tournament), i \in 1..Len(tournament.participants) :
       LET m == MatchAt(tournament, p)
           outsider == tournament.participants[i].id
       IN /\ m.status = "pending"
          /\ Len(m.pendingResults) = 1
          /\ outsider \notin {m.player1.id, m.player2.id}
          /\ submitResult(tournament, m.id, outsider, Num(1), Num(0)).code = 403

\* C7: no pending result holds two equal scores, in whatever JSON form the
\* scores were sent.
C7_NoDrawStored ==
  \A p \in Positions(tournament) :
    \A i \in 1..Len(MatchAt(tournament, p).pendingResults) :
      MatchAt(tournament, p).pendingResults[i].score1 # MatchAt(tournament, p).pendingResults[i].score2

C9_CompletedMatchRefusesSubmission ==
  \A matchId \in MatchIds, submittedBy \in RequestIds, scores \in SubmitScores :
    LET p == TargetPos(tournament, matchId)
    IN (p # <<0, 0>> /\ MatchAt(tournament, p).status = "completed")
       => LET resp == submitResult(tournament, matchId, submittedBy, scores[1], scores[2])
          IN /\ resp.t = tournament
             /\ resp.code = 400
             /\ WellFormed(submittedBy, scores) => resp.error = "alreadyCompleted"

\* C9 witness: a match the admin completed, so with no pending results, that
\* refuses the submission of one of its players.
C9_Witness ==
  /\ HasBracket(tournament)
  /\ \E p \in Positions(tournament) :
       LET m == MatchAt(tournament, p)
       IN /\ m.status = "completed"
          /\ m.completedBy = "admin"
          /\ m.pendingResults = <<>>
          /\ submitResult(tournament, m.id, m.player1.id, Num(1), Num(0)).error = "alreadyCompleted"

\* An admin body the handler accepts for match m: a score pair, or the id of
\* one of its players.
ValidAdminBody(m, body) ==
  \/ body.score1 # Undefined /\ body.score2 # Undefined
  \/ body.winnerId \in {m.player1.id, m.player2.id}

\* C10: an admin result with a valid body succeeds on a match in any state
\* and leaves it completed by admin, without pending results and so not in
\* conflict, with the winner the body names: the player of the winner id, or
\* the player with the higher score of the pair.
C10_AdminResultOverrides ==
  \A matchId \in MatchIds, body \in AdminBodies :
    LET p == TargetPos(tournament, matchId)
    IN (p # <<0, 0>> /\ ValidAdminBody(MatchAt(tournament, p), body))
       => LET m == MatchAt(tournament, p)
              resp == adminSetResult(tournament, matchId, body.winnerId, body.score1, body.score2)
              done == MatchAt(resp.t, p)
          IN /\ resp.code = 200
             /\ done.status = "completed"
             /\ done.completedBy = "admin"
             /\ done.pendingResults = <<>>
             /\ ~InConflict(done)
             /\ done.winner \in {m.player1, m.player2}
             /\ body.score1 = Undefined => done.winner.id = body.winnerId
             /\ (body.score1 # Undefined /\ ParseInt(body.score1) > ParseInt(body.score2))
                  => done.winner = m.player1
             /\ (body.score1 # Undefined /\ ParseInt(body.score2) > ParseInt(body.score1))
                  => done.winner = m.player2

\* C10 witness: a match in conflict which an admin result by score pair
\* turns into a completed match without pending results.
C10_Witness ==
  /\ HasBracket(tournament)
  /\ \E p \in Positions(tournament) :
       LET m == MatchAt(tournament, p)
           resp == adminSetResult(tournament, m.id, 0, Num(1), Num(0))
       IN /\ InConflict(m)
          /\ MatchAt(resp.t, p).status = "completed"
          /\ MatchAt(resp.t, p).pendingResults = <<>>
          /\ MatchAt(resp.t, p).winner = m.player1

\* A body that carries both scores.
HasScorePair(body) == body.score1 # Undefined /\ body.score2 # Undefined

\* C11 as claimed: an admin result that supplies neither a winner id nor a
\* complete score pair, or whose winner id is neither player's id, fails
\* with a validation error and leaves the document unchanged.
C11_InvalidAdminBodyFails ==
  \A matchId \in MatchIds, body \in AdminBodies :
    LET p == TargetPos(tournament, matchId)
    IN p # <<0, 0>>
       => LET m == MatchAt(tournament, p)
              resp == adminSetResult(tournament, matchId, body.winnerId, body.score1, body.score2)
          IN ((body.winnerId = 0 /\ ~HasScorePair(body))
                \/ (body.winnerId # 0 /\ body.winnerId \notin {m.player1.id, m.player2.id}))
             => (resp.code = 400 /\ resp.t = tournament)

\* C11 as amended: without a complete score pair, an admin result whose
\* winner id is absent or is neither player's id fails with a validation
\* error (winner or score required, invalid winner id) and leaves the
\* document unchanged; with a complete score pair the winner id is not
\* looked at and the result is accepted.
C11_InvalidAdminBodyRejected ==
  \A matchId \in MatchIds, body \in AdminBodies :
    LET p == TargetPos(tournament, matchId)
    IN p # <<0, 0>>
       => LET m == MatchAt(tournament, p)
              resp == adminSetResult(tournament, matchId, body.winnerId, body.score1, body.score2)
          IN /\ (~HasScorePair(body) /\ body.winnerId = 0)
                  => (resp.code = 400 /\ resp.error = "winnerOrScoreRequired"
                        /\ resp.t = tournament /\ resp.statsFor = NullWallet)
             /\ (~HasScorePair(body) /\ body.winnerId # 0
                   /\ body.winnerId \notin {m.player1.id, m.player2.id})
                  => (resp.code = 400 /\ resp.error = "invalidWinner"
                        /\ resp.t = tournament /\ resp.statsFor = NullWallet)
             /\ HasScorePair(body) => resp.code = 200

\* C11 witness: a pending match that holds a submitted result, and a winner
\* id of somebody who does not play in it: the admin result is refused.
C11_Witness ==
  /\ HasBracket(tournament)
  /\ \E p \in Positions(tournament), w \in RequestIds \ {0} :
       LET m == MatchAt(tournament, p)
           resp == adminSetResult(tournament, m.id, w, Undefined, Undefined)
       IN /\ m.status = "pending"
          /\ Len(m.pendingResults) = 1
          /\ w \notin {m.player1.id, m.player2.id}
          /\ resp.code = 400
          /\ resp.t = tournament

\* C12: in every completed match with both scores set the winner is the
\* player with the strictly higher score: player1 exactly when score1 is
\* above score2, player2 exactly when score2 is above score1.
C12_WinnerHasHigherScore ==
  HasBracket(tournament)
    => \A p \in Positions(tournament) :
         LET m == MatchAt(tournament, p)
         IN (m.status = "completed" /\ m.score1 # NullScore /\ m.score2 # NullScore)
            => /\ (m.winner = m.player1) <=> (m.score1 > m.score2)
               /\ (m.winner = m.player2) <=> (m.score2 > m.score1)

RECURSIVE Pow2(_)
Pow2(k) == IF k = 0 THEN 1 ELSE 2 * Pow2(k - 1)

\* C13: the bracket built for N >= 2 participants has bracketSize the
\* smallest power of two that is at least N, totalRounds its base-2
\* logarithm, bracketSize - N bye players, and a first round with
\* 2 * matches + byes = N.
C13_BracketShape ==
  (tournament.status = "started" /\ HasBracket(tournament))
    => LET n == Len(tournament.participants)
           b == tournament.bracket
       IN /\ n >= 2
          /\ \E k \in 0..n : b.bracketSize = Pow2(k) /\ b.totalRounds = k
          /\ b.bracketSize >= n
          /\ b.bracketSize < 2 * n
          /\ Len(b.playersWithByes) = b.bracketSize - n
          /\ Len(b.rounds) = 1
          /\ 2 * Len(b.rounds[1]) + Len(b.playersWithByes) = n

\* C13 witness: five participants, a bracket of eight with three rounds,
\* three byes and one first-round match.
C13_Witness ==
  /\ tournament.status = "started"
  /\ Len(tournament.participants) = 5
  /\ tournament.bracket.bracketSize = 8
  /\ tournament.bracket.totalRounds = 3
  /\ Len(tournament.bracket.playersWithByes) = 3
  /\ Len(tournament.bracket.rounds[1]) = 1

\* The slots of a new bracket: the players of the first-round matches in
\* match order, then the bye players.
RECURSIVE RoundPlayers(_, _)
RoundPlayers(round, k) ==
  IF k > Len(round) THEN <<>>
  ELSE <<round[k].player1, round[k].player2>> \o RoundPlayers(round, k + 1)

BracketSlots(b) == RoundPlayers(b.rounds[1], 1) \o b.playersWithByes

\* C14: the bracket built places every participant in exactly one slot, a
\* player slot of a first-round match or a bye, and the slots hold nobody
\* else; when N is a power of two there is no bye.
C14_EveryParticipantPlacedOnce ==
  (tournament.status = "started" /\ HasBracket(tournament))
    => LET n == Len(tournament.participants)
           slots == BracketSlots(tournament.bracket)
       IN /\ Len(slots) = n
          /\ \A i \in 1..n :
               Cardinality({j \in 1..Len(slots) : slots[j] = tournament.participants[i]}) = 1
          /\ (\E k \in 1..n : n = Pow2(k))
               => (tournament.bracket.playersWithByes = <<>>
                     /\ 2 * Len(tournament.bracket.rounds[1]) = n)

\* C14 witness: three participants, of which the one of the smallest id got
\* the bye and the other two play the first-round match.
C14_Witness ==
  /\ tournament.status = "started"
  /\ Len(tournament.participants) = 3
  /\ tournament.bracket.playersWithByes = <<Participant(1)>>
  /\ Len(tournament.bracket.rounds[1]) = 1
  /\ {tournament.bracket.rounds[1][1].player1, tournament.bracket.rounds[1][1].player2}
       = {Participant(2), Participant(3)}

\* The answers of the requests that can complete the match of that id: the
\* admin results and the submissions.
PlayCompletions(t, matchId) ==
  {adminSetResult(t, matchId, body.winnerId, body.score1, body.score2) : body \in PlayBodies}
    \cup {submitResult(t, matchId, x[1], x[2][1], x[2][2]) : x \in PlayIds \X PlaySubmitScores}

AllCompleted(round) == \A k \in 1..Len(round) : round[k].status = "completed"

\* C15: an accepted result for a match of a round that is not the current
\* round (its next round exists already) appends no round, leaves
\* currentRound as it is and leaves every other round untouched, also when
\* it completes that round once more.
C15_StaleCompletionCreatesNoRound ==
  HasBracket(tournament)
    => \A matchId \in PlayMatchIds :
         LET p == TargetPos(tournament, matchId)
         IN (p # <<0, 0>> /\ p[1] # tournament.bracket.currentRound)
            => \A resp \in PlayCompletions(tournament, matchId) :
                 Accepted(resp)
                 => /\ Len(resp.t.bracket.rounds) = Len(tournament.bracket.rounds)
                    /\ resp.t.bracket.currentRound = tournament.bracket.currentRound
                    /\ \A r \in 1..Len(tournament.bracket.rounds) :
                         r # p[1] => resp.t.bracket.rounds[r] = tournament.bracket.rounds[r]

\* C15 witness: both second-round matches are completed, the final exists
\* and waits, and an admin result turns the first of them over: the second
\* round is complete once more with two winners, and the bracket still has
\* its three rounds.
C15_Witness ==
  /\ HasBracket(tournament)
  /\ tournament.status = "started"
  /\ tournament.bracket.currentRound = 3
  /\ Len(tournament.bracket.rounds) = 3
  /\ Len(tournament.bracket.rounds[2]) = 2
  /\ AllCompleted(tournament.bracket.rounds[2])
  /\ tournament.bracket.rounds[2][1].winner = tournament.bracket.rounds[2][1].player1
  /\ LET resp == adminSetResult(tournament, <<2, 1>>, 0, Num(0), Num(1))
     IN /\ resp.code = 200
        /\ AllCompleted(resp.t.bracket.rounds[2])
        /\ resp.t.bracket.rounds[2][1].winner = tournament.bracket.rounds[2][1].player2
        /\ Len(resp.t.bracket.rounds) = 3
        /\ resp.t.bracket.currentRound = 3

\* C16: a started or finished tournament never has more rounds in its
\* bracket than totalRounds.
C16_RoundsWithinTotalRounds ==
  (HasBracket(tournament) /\ tournament.status \in {"started", "finished"})
    => Len(tournament.bracket.rounds) <= tournament.bracket.totalRounds

\* C16 witness: a bracket with all its rounds, whose second round was
\* completed again after the final was paired: the winner of its first
\* match is not the player the final holds for it.
C16_Witness ==
  /\ HasBracket(tournament)
  /\ tournament.status \in {"started", "finished"}
  /\ Len(tournament.bracket.rounds) = 3
  /\ tournament.bracket.totalRounds = 3
  /\ AllCompleted(tournament.bracket.rounds[2])
  /\ tournament.bracket.rounds[2][1].winner # tournament.bracket.rounds[3][1].player1

Winners(round) == [k \in 1..Len(round) |-> round[k].winner]

\* A bracket as start installs it.
FreshBracket(b) ==
  /\ b.currentRound = 1
  /\ Len(b.rounds) = 1
  /\ ~b.isComplete
  /\ \A k \in 1..Len(b.rounds[1]) :
       b.rounds[1][k] = NewMatch(<<1, k>>, b.rounds[1][k].player1, b.rounds[1][k].player2)

\* The step installs a new bracket: the tournament was not started and is
\* now, with a bracket as start builds it.
IsStartStep ==
  /\ tournament.status # "started"
  /\ tournament'.status = "started"
  /\ FreshBracket(tournament'.bracket)

\* What a step does to the byes of a bracket.
ByesStep ==
  /\ (HasBracket(tournament') /\ tournament'.bracket.playersWithByes # <<>>)
       => (Len(tournament'.bracket.rounds) = 1 /\ ~AllCompleted(tournament'.bracket.rounds[1]))
  /\ (HasBracket(tournament) /\ HasBracket(tournament') /\ ~IsStartStep)
       => LET b == tournament.bracket
              b2 == tournament'.bracket
              last == Len(b2.rounds)
          IN /\ b.playersWithByes = <<>> => b2.playersWithByes = <<>>
             /\ (b.playersWithByes # <<>> /\ AllCompleted(b2.rounds[1]))
                  => /\ b2.playersWithByes = <<>>
                     /\ Len(b2.rounds) = 2
                     /\ RoundPlayers(b2.rounds[2], 1) = Winners(b2.rounds[1]) \o b.playersWithByes
             /\ (b.playersWithByes # <<>> /\ ~AllCompleted(b2.rounds[1]))
                  => b2.playersWithByes = b.playersWithByes
             /\ (b.playersWithByes = <<>> /\ last = Len(b.rounds) + 1)
                  => RoundPlayers(b2.rounds[last], 1) = Winners(b2.rounds[last - 1])

\* C17: the byes of a bracket are drained once.  playersWithByes is
\* non-empty only while the bracket has its first round alone and that
\* round is not complete; the step that completes the first round empties
\* it and pairs, in a second round, the first-round winners followed by the
\* bye players; from then on it stays empty under every operation on that
\* bracket, and a round appended later holds the winners of the round
\* before it and nobody else.
C17_ByesDrainedOnce == [][ByesStep]_vars

\* C17 witness: the first round of a bracket with three byes is complete,
\* the byes are drained, and the second round holds the first-round winner
\* followed by the three bye players.
C17_Witness ==
  /\ HasBracket(tournament)
  /\ tournament.status = "started"
  /\ tournament.bracket.playersWithByes = <<>>
  /\ Len(tournament.bracket.rounds) = 2
  /\ RoundPlayers(tournament.bracket.rounds[2], 1)
       = <<tournament.bracket.rounds[1][1].winner, Participant(1), Participant(2), Participant(3)>>

\* The answers of the requests of Spec that can complete the match of that
\* id.
Completions(t, matchId) ==
  {adminSetResult(t, matchId, body.winnerId, body.score1, body.score2) : body \in AdminBodies}
    \cup {submitResult(t, matchId, x[1], x[2][1], x[2][2]) : x \in RequestIds \X SubmitScores}

\* The participants that advance from round r of the bracket of after,
\* given the byes the bracket held before the request.
Advancing(before, after, r) ==
  Winners(after.bracket.rounds[r])
    \o (IF r = 1 THEN before.bracket.playersWithByes ELSE <<>>)

\* C19: when an accepted result leaves all matches of its round completed
\* and one participant advances from that round, the request leaves the
\* bracket complete, that participant winner of bracket and tournament, the
\* tournament finished with finishedAt set, the statistics of that
\* participant updated, and the rounds and currentRound as they were.
C19_SingleAdvancingFinishes ==
  HasBracket(tournament)
    => \A matchId \in MatchIds :
         LET p == TargetPos(tournament, matchId)
         IN p # <<0, 0>>
            => \A resp \in Completions(tournament, matchId) :
                 (/\ Accepted(resp)
                  /\ AllCompleted(resp.t.bracket.rounds[p[1]])
                  /\ Len(Advancing(tournament, resp.t, p[1])) = 1)
                 => LET champion == Advancing(tournament, resp.t, p[1])[1]
                    IN /\ resp.t.bracket.isComplete
                       /\ resp.t.bracket.winner = champion
                       /\ resp.t.winner = champion
                       /\ resp.t.status = "finished"
                       /\ resp.t.finishedAt
                       /\ resp.statsFor = champion.walletAddress
                       /\ Len(resp.t.bracket.rounds) = Len(tournament.bracket.rounds)
                       /\ resp.t.bracket.currentRound = tournament.bracket.currentRound

\* C19 witness: the final of a 3-player tournament waits for its second
\* result, and the submission that agrees with the first finishes the
\* tournament with the player ahead as winner.
C19_Witness ==
  /\ HasBracket(tournament)
  /\ tournament.status = "started"
  /\ ~tournament.finishedAt
  /\ Len(tournament.bracket.rounds) = 2
  /\ LET m == tournament.bracket.rounds[2][1]
     IN /\ m.status = "pending"
        /\ Len(m.pendingResults) = 1
        /\ m.pendingResults[1].submittedBy = m.player1.id
        /\ m.pendingResults[1].score1 = 1
        /\ m.pendingResults[1].score2 = 0
        /\ LET resp == submitResult(tournament, m.id, m.player2.id, Num(1), Num(0))
           IN /\ resp.code = 200
              /\ resp.t.status = "finished"
              /\ resp.t.finishedAt
              /\ resp.t.winner = m.player1
              /\ resp.t.bracket.winner = m.player1
              /\ resp.t.bracket.isComplete
              /\ Len(resp.t.bracket.rounds) = 2

\* ------------------------------------------------------ a tournament, run once
\* The runs in which a tournament of 2..MaxPlayers participants is started
\* once and every pending match of the current round is completed once, by
\* an admin result or by submissions that agree; no match is reset, no
\* completed match is given another result.
RunPos(matchId) ==
  IF tournament.status = "started" THEN TargetPos(tournament, matchId) ELSE <<0, 0>>

\* The match of that id is a pending match of the current round.
RunOpen(matchId) ==
  /\ RunPos(matchId) # <<0, 0>>
  /\ RunPos(matchId)[1] = tournament.bracket.currentRound
  /\ MatchAt(tournament, RunPos(matchId)).status = "pending"

RunIds == 1..MaxPlayers
RunMatchIds ==
  {<<r, k>> : r \in 1..Log2(BracketSize(MaxPlayers)), k \in 1..(MaxPlayers \div 2)}

RunStart == tournament.status = "registration" /\ PlayStart

RunAdminSetResult ==
  \E matchId \in RunMatchIds, body \in PlayBodies :
    /\ RunOpen(matchId)
    /\ Serve(adminSetResult(tournament, matchId, body.winnerId, body.score1, body.score2))

RunSubmitResult ==
  \E matchId \in RunMatchIds, submittedBy \in RunIds, scores \in PlayScores :
    /\ RunOpen(matchId)
    /\ \A i \in 1..Len(MatchAt(tournament, RunPos(matchId)).pendingResults) :
         SamePair(MatchAt(tournament, RunPos(matchId)).pendingResults[i], scores)
    /\ Serve(submitResult(tournament, matchId, submittedBy, scores[1], scores[2]))

NextRun ==
  \/ RunStart
  \/ RunAdminSetResult
  \/ RunSubmitResult

SpecRun == InitBuilder /\ [][NextRun]_vars

\* The participants that play no first-round match.
ByePlayers(t) ==
  {t.participants[i] : i \in 1..Len(t.participants)}
    \ {RoundPlayers(t.bracket.rounds[1], 1)[j] : j \in 1..(2 * Len(t.bracket.rounds[1]))}

SeqToSet(seq) == {seq[i] : i \in 1..Len(seq)}

\* What holds of the rounds of a bracket in a run, whatever the number of
\* first-round matches has to be: the pool that advances from a round is
\* paired completely (the players of the next round are the winners of the
\* round, after round 1 with the bye players, each once, two per match), no
\* round comes after round totalRounds, and the tournament is finished
\* exactly when the round totalRounds is complete, with the winner of its
\* one match as champion.
RunShape(t) ==
  LET b == t.bracket
  IN /\ Len(b.rounds) <= b.totalRounds
     /\ \A r \in 1..(Len(b.rounds) - 1) :
          LET pool == SeqToSet(Winners(b.rounds[r]))
                        \cup (IF r = 1 THEN ByePlayers(t) ELSE {})
              next == RoundPlayers(b.rounds[r + 1], 1)
          IN /\ AllCompleted(b.rounds[r])
             /\ SeqToSet(next) = pool
             /\ Len(next) = Cardinality(pool)
             /\ Cardinality(pool) = Len(b.rounds[r]) + (IF r = 1 THEN b.bracketSize - Len(t.participants) ELSE 0)
             /\ Cardinality(pool) % 2 = 0
     /\ (t.status = "finished")
          <=> (Len(b.rounds) = b.totalRounds /\ AllCompleted(b.rounds[b.totalRounds]))
     /\ t.status = "finished"
          => /\ Len(b.rounds[b.totalRounds]) = 1
             /\ b.isComplete
             /\ t.winner = b.rounds[b.totalRounds][1].winner
             /\ b.winner = t.winner

\* C18 as claimed: in a run, every round r has bracketSize / 2^r matches,
\* every advancing pool is paired completely, and the tournament finishes
\* after exactly totalRounds rounds.
C18_RoundSizesHalveFromBracketSize ==
  (HasBracket(tournament) /\ tournament.status \in {"started", "finished"})
    => /\ RunShape(tournament)
       /\ \A r \in 1..Len(tournament.bracket.rounds) :
            Len(tournament.bracket.rounds[r]) * Pow2(r) = tournament.bracket.bracketSize

\* C18 as amended: in a run, round 1 has N - bracketSize / 2 matches
\* (bracketSize / 2 when N is a power of two), every later round r has
\* bracketSize / 2^r matches, every advancing pool is paired completely,
\* and the tournament finishes after exactly totalRounds rounds.
C18_RoundSizesOfARun ==
  (HasBracket(tournament) /\ tournament.status \in {"started", "finished"})
    => /\ RunShape(tournament)
       /\ 2 * Len(tournament.bracket.rounds[1])
            = 2 * Len(tournament.participants) - tournament.bracket.bracketSize
       /\ \A r \in 2..Len(tournament.bracket.rounds) :
            Len(tournament.bracket.rounds[r]) * Pow2(r) = tournament.bracket.bracketSize

\* C18 witness: five participants, finished after three rounds of one, two
\* and one match.
C18_Witness ==
  /\ tournament.status = "finished"
  /\ Len(tournament.participants) = 5
  /\ Len(tournament.bracket.rounds) = 3
  /\ Len(tournament.bracket.rounds[1]) = 1
  /\ Len(tournament.bracket.rounds[2]) = 2
  /\ Len(tournament.bracket.rounds[3]) = 1
  /\ tournament.winner = tournament.bracket.rounds[3][1].winner

\* A step that completes the tournament: it ends in status finished, and
\* either the tournament was not finished before or the registry changed.
CompletesStep ==
  /\ tournament'.status = "finished"
  /\ (tournament.status # "finished" \/ globalUsers' # globalUsers)

\* The registry after a completing step: the winner's three counters are one
\* higher and every other user's profile is as before.
WinnerStatsStep ==
  CompletesStep
    => \E w \in DOMAIN globalUsers :
         /\ WalletOf(w) = tournament'.winner.walletAddress
         /\ globalUsers'[w].totalWins = globalUsers[w].totalWins + 1
         /\ globalUsers'[w].gameStats.wins = globalUsers[w].gameStats.wins + 1
         /\ globalUsers'[w].gameStats.tournaments = globalUsers[w].gameStats.tournaments + 1
         /\ \A u \in DOMAIN globalUsers \ {w} : globalUsers'[u] = globalUsers[u]

\* C20: a step that completes the tournament with winner w raises w's
\* totalWins, wins of the game and tournaments of the game by exactly 1 each
\* in the registry and leaves the counters of every other user as they were.
C20_WinnerStatsIncremented == [][WinnerStatsStep]_vars

\* C20 witness: a finished tournament played to the end of its bracket,
\* whose winner has one win and one tournament in the registry while another
\* participant still has none.
C20_Witness ==
  /\ tournament.status = "finished"
  /\ HasBracket(tournament)
  /\ AllCompleted(tournament.bracket.rounds[Len(tournament.bracket.rounds)])
  /\ \E w \in DOMAIN globalUsers :
       /\ WalletOf(w) = tournament.winner.walletAddress
       /\ globalUsers[w] = [totalWins |-> 1, gameStats |-> [wins |-> 1, tournaments |-> 1]]
       /\ \E i \in 1..Len(tournament.participants) :
            /\ tournament.participants[i].walletAddress # WalletOf(w)
            /\ \E u \in DOMAIN globalUsers :
                 /\ WalletOf(u) = tournament.participants[i].walletAddress
                 /\ globalUsers[u] = NewStats

\* A participant of t has the wallet address w, ignoring case.
IsRegistered(t, w) ==
  \E i \in 1..Len(t.participants) :
    ToLowerCase(t.participants[i].walletAddress) = ToLowerCase(w)

\* C21: register on a stored tournament is rejected, with the document left
\* as it was, when the status is not registration or a participant with the
\* same wallet address ignoring case is in the list; and no two participants
\* of the tournament have wallet addresses that are equal ignoring case.
C21_RegisterRejectsClosedAndDuplicate ==
  /\ tournament.exists
       => \A w \in RequestWallets :
            (tournament.status # "registration" \/ IsRegistered(tournament, w))
              => LET resp == registerParticipant(tournament, w)
                 IN ~Accepted(resp) /\ resp.t = tournament
  /\ \A i, j \in 1..Len(tournament.participants) :
       ToLowerCase(tournament.participants[i].walletAddress)
           = ToLowerCase(tournament.participants[j].walletAddress)
         => i = j

\* C21 witness: two participants in registration, and a request that spells
\* the address of one of them in the other case is answered "already
\* registered".
C21_Witness ==
  /\ tournament.status = "registration"
  /\ Len(tournament.participants) = 2
  /\ \E w \in RequestWallets :
       /\ w # tournament.participants[2].walletAddress
       /\ ToLowerCase(w) = ToLowerCase(tournament.participants[2].walletAddress)
       /\ registerParticipant(tournament, w).error = "alreadyRegistered"

\* The responses of start in state t, over every draw of Math.random.
Starts(t) ==
  {startTournament(t, js, rs) :
     js \in ShuffleDraws(Len(t.participants)),
     rs \in ByeDraws(Len(t.participants), BracketSize(Len(t.participants)) - Len(t.participants))}

\* The responses of start, submit-result, admin result, match reset and
\* force-complete to every request in state t.
OtherOperations(t) ==
  Starts(t)
    \cup {submitResult(t, matchId, submittedBy, scores[1], scores[2]) :
            matchId \in MatchIds, submittedBy \in RequestIds, scores \in SubmitScores}
    \cup {adminSetResult(t, matchId, body.winnerId, body.score1, body.score2) :
            matchId \in MatchIds, body \in AdminBodies}
    \cup {resetMatch(t, matchId) : matchId \in MatchIds}
    \cup {forceComplete(t, winnerId) : winnerId \in RequestIds}

\* C22: in status started or finished register and unregister are rejected
\* and leave the document as it was, and in every status start,
\* submitResult, adminSetResult, resetMatch and force-complete leave
\* tournament.participants as it was.
C22_ParticipantsChangeOnlyInRegistration ==
  tournament.exists
    => /\ tournament.status \in {"started", "finished"}
            => \A w \in RequestWallets :
                 \A resp \in {registerParticipant(tournament, w),
                              unregisterParticipant(tournament, w)} :
                   ~Accepted(resp) /\ resp.t = tournament
       /\ \A resp \in OtherOperations(tournament) :
            resp.t.participants = tournament.participants

\* C22 witness: a started tournament of two participants with a third user
\* outside; the outsider's register and a participant's unregister are
\* answered "registration closed", and an accepted admin result and an
\* accepted force-complete keep the list.
C22_Witness ==
  /\ tournament.status = "started"
  /\ Len(tournament.participants) = 2
  /\ \E w \in RequestWallets :
       /\ w # NullWallet
       /\ ~IsRegistered(tournament, w)
       /\ registerParticipant(tournament, w).error = "registrationClosed"
  /\ unregisterParticipant(tournament, tournament.participants[1].walletAddress).error
       = "registrationClosed"
  /\ \E resp \in OtherOperations(tournament) :
       Accepted(resp) /\ resp.t.status = "finished" /\ resp.t.participants = tournament.participants

\* C23: start on a stored tournament is rejected and leaves the document as
\* it was when there are fewer than 2 participants or the status is started;
\* otherwise it is accepted, the status becomes started and the bracket is a
\* new one whose slots hold every current participant once, with one round
\* of pending matches, currentRound 1, isComplete false and winner null.
C23_StartContract ==
  tournament.exists
    => \A resp \in Starts(tournament) :
         IF Len(tournament.participants) < 2 \/ tournament.status = "started"
           THEN ~Accepted(resp) /\ resp.t = tournament
           ELSE /\ Accepted(resp)
                /\ resp.t.status = "started"
                /\ resp.t = [tournament EXCEPT !.status = "started", !.bracket = resp.t.bracket]
                /\ FreshBracket(resp.t.bracket)
                /\ resp.t.bracket.winner = NullPlayer
                /\ LET slots == BracketSlots(resp.t.bracket)
                   IN /\ Len(slots) = Len(tournament.participants)
                      /\ \A i \in 1..Len(tournament.participants) :
                           \E j \in 1..Len(slots) : slots[j] = tournament.participants[i]

\* C23 witness: a finished tournament of three participants whose bracket is
\* complete; start is accepted and replaces the bracket by a new one with no
\* winner.
C23_Witness ==
  /\ tournament.status = "finished"
  /\ Len(tournament.participants) = 3
  /\ HasBracket(tournament)
  /\ tournament.bracket.isComplete
  /\ tournament.bracket.winner # NullPlayer
  /\ \E resp \in Starts(tournament) :
       /\ Accepted(resp)
       /\ resp.t.status = "started"
       /\ FreshBracket(resp.t.bracket)
       /\ resp.t.bracket.winner = NullPlayer

\* C24: a match reset is accepted only for a completed match; the document
\* it leaves has that match pending with winner, scores and pendingResults
\* cleared and its id and players kept, every other match, the number of
\* rounds, currentRound and playersWithByes as before, and a finished
\* tournament back in status started with tournament.winner, bracket.winner
\* and isComplete cleared, while another status stays.
C24_ResetMatchContract ==
  HasBracket(tournament)
    => \A matchId \in MatchIds :
         LET resp == resetMatch(tournament, matchId)
             p == TargetPos(tournament, matchId)
         IN Accepted(resp)
              => /\ p # <<0, 0>>
                 /\ MatchAt(tournament, p).status = "completed"
                 /\ MatchAt(resp.t, p)
                      = NewMatch(matchId, MatchAt(tournament, p).player1, MatchAt(tournament, p).player2)
                 /\ Len(resp.t.bracket.rounds) = Len(tournament.bracket.rounds)
                 /\ \A r \in 1..Len(tournament.bracket.rounds) :
                      /\ Len(resp.t.bracket.rounds[r]) = Len(tournament.bracket.rounds[r])
                      /\ \A k \in 1..Len(tournament.bracket.rounds[r]) :
                           <<r, k>> # p => resp.t.bracket.rounds[r][k] = tournament.bracket.rounds[r][k]
                 /\ resp.t.bracket.currentRound = tournament.bracket.currentRound
                 /\ resp.t.bracket.playersWithByes = tournament.bracket.playersWithByes
                 /\ IF tournament.status = "finished"
                      THEN /\ resp.t.status = "started"
                           /\ resp.t.winner = NullPlayer
                           /\ resp.t.bracket.winner = NullPlayer
                           /\ ~resp.t.bracket.isComplete
                      ELSE resp.t.status = tournament.status

\* C24 witness: a finished tournament of three participants whose final was
\* played by the winner of the first-round match; the reset of the
\* first-round match is accepted and the final keeps that player.
C24_Witness ==
  /\ tournament.status = "finished"
  /\ HasBracket(tournament)
  /\ Len(tournament.bracket.rounds) = 2
  /\ tournament.bracket.rounds[1][1].status = "completed"
  /\ tournament.bracket.rounds[2][1].status = "completed"
  /\ tournament.bracket.rounds[2][1].player1 = tournament.bracket.rounds[1][1].winner
  /\ LET resp == resetMatch(tournament, tournament.bracket.rounds[1][1].id)
     IN /\ Accepted(resp)
        /\ resp.t.status = "started"
        /\ resp.t.bracket.rounds[1][1].status = "pending"
        /\ resp.t.bracket.rounds[2][1] = tournament.bracket.rounds[2][1]

\* From a finished tournament the step keeps the tournament stored, and
\* cancel is rejected there.
FinishedStaysStep ==
  tournament.status = "finished"
    => /\ ~Accepted(cancelTournament(tournament))
       /\ cancelTournament(tournament).t = tournament
       /\ tournament'.exists

\* C25: cancel on a finished tournament is rejected and leaves it stored,
\* and no operation removes a finished tournament from the store.
C25_FinishedNeverRemoved == [][FinishedStaysStep]_vars

\* C26: on a stored tournament force-complete with the id of a participant
\* is accepted and leaves status finished and that participant as
\* tournament.winner, and with a bracket also as bracket.winner with
\* isComplete set, the rounds staying as they were whatever is pending; with
\* no id or an id of no participant it is rejected and the document is as
\* before.
C26_ForceCompleteContract ==
  tournament.exists
    => \A winnerId \in RequestIds :
         LET resp == forceComplete(tournament, winnerId)
             hits == {i \in 1..Len(tournament.participants) :
                        tournament.participants[i].id = winnerId}
         IN IF winnerId # 0 /\ hits # {}
              THEN /\ Accepted(resp)
                   /\ resp.t.status = "finished"
                   /\ \E i \in hits : resp.t.winner = tournament.participants[i]
                   /\ HasBracket(tournament)
                        => /\ resp.t.bracket.isComplete
                           /\ resp.t.bracket.winner = resp.t.winner
                           /\ resp.t.bracket.rounds = tournament.bracket.rounds
              ELSE ~Accepted(resp) /\ resp.t = tournament

\* C26 witness: a started tournament of three participants whose first-round
\* match is pending; force-complete for the bye player is accepted and the
\* match is still pending in the finished tournament.
C26_Witness ==
  /\ tournament.status = "started"
  /\ HasBracket(tournament)
  /\ Len(tournament.bracket.playersWithByes) = 1
  /\ tournament.bracket.rounds[1][1].status = "pending"
  /\ LET resp == forceComplete(tournament, tournament.bracket.playersWithByes[1].id)
     IN /\ Accepted(resp)
        /\ resp.t.status = "finished"
        /\ resp.t.winner = tournament.bracket.playersWithByes[1]
        /\ resp.t.bracket.winner = tournament.bracket.playersWithByes[1]
        /\ resp.t.bracket.rounds[1][1].status = "pending"

\* The match holds two pending results and is not completed, and the two
\* results carry different score pairs.
OpenDisagreement(m) ==
  /\ m.status # "completed"
  /\ Len(m.pendingResults) = 2
  /\ <<m.pendingResults[1].score1, m.pendingResults[1].score2>>
       # <<m.pendingResults[2].score1, m.pendingResults[2].score2>>

\* C27: listConflicts answers with one entry for every match that is not
\* completed and holds two pending results of different score pairs, the
\* entry carrying the match id, the round, the players and both results,
\* and with no other entry; so a match with fewer than two submissions, or
\* one that adminSetResult or a reset has cleared, is not listed.
C27_ListConflictsExact ==
  HasBracket(tournament)
    => LET answer == listConflicts(tournament)
           conflicts == answer.conflicts
       IN /\ answer.code = 200
          /\ \A p \in Positions(tournament) :
               LET m == MatchAt(tournament, p)
                   entries == {i \in 1..Len(conflicts) : conflicts[i].matchId = m.id}
               IN IF OpenDisagreement(m)
                    THEN /\ Cardinality(entries) = 1
                         /\ \A i \in entries :
                              conflicts[i] = [matchId |-> m.id, round |-> p[1],
                                              player1 |-> m.player1, player2 |-> m.player2,
                                              results |-> m.pendingResults]
                    ELSE entries = {}
          /\ \A i \in 1..Len(conflicts) :
               \E p \in Positions(tournament) : MatchAt(tournament, p).id = conflicts[i].matchId

\* C27 witness: a 3-player tournament in its second round, whose first-round
\* match was in conflict and then decided by the admin, and whose final is
\* in conflict: the list holds the final alone, with both results.
C27_Witness ==
  /\ HasBracket(tournament)
  /\ tournament.status = "started"
  /\ Len(tournament.bracket.rounds) = 2
  /\ tournament.bracket.rounds[1][1].status = "completed"
  /\ tournament.bracket.rounds[1][1].completedBy = "admin"
  /\ InConflict(tournament.bracket.rounds[2][1])
  /\ Len(listConflicts(tournament).conflicts) = 1
  /\ listConflicts(tournament).conflicts[1].round = 2
  /\ Len(listConflicts(tournament).conflicts[1].results) = 2

\* C28: a stored tournament has a null bracket exactly when its status is
\* registration, so in status started or finished the bracket is not null.
C28_BracketNullIffRegistration ==
  tournament.exists
    => ((tournament.bracket = NullBracket) <=> (tournament.status = "registration"))

\* C29: an accepted submitResult on a match without pending results leaves
\* the document as it was except for the pending results of that match,
\* which hold the one submitted result without a conflict flag; the match
\* is pending with winner and scores null, and no statistics are recorded.
C29_FirstSubmissionOnlyAppends ==
  HasBracket(tournament)
    => \A matchId \in MatchIds, submittedBy \in RequestIds, scores \in SubmitScores :
         LET resp == submitResult(tournament, matchId, submittedBy, scores[1], scores[2])
             p == TargetPos(tournament, matchId)
         IN (/\ p # <<0, 0>>
             /\ Accepted(resp)
             /\ MatchAt(tournament, p).pendingResults = <<>>)
            => LET m == MatchAt(resp.t, p)
               IN /\ m.pendingResults
                       = <<[submittedBy |-> submittedBy, score1 |-> ParseInt(scores[1]),
                            score2 |-> ParseInt(scores[2]), conflict |-> FALSE]>>
                  /\ m.status = "pending"
                  /\ m.winner = NullPlayer
                  /\ m.score1 = NullScore /\ m.score2 = NullScore
                  /\ resp.t = SetMatch(tournament, p[1], p[2],
                                [MatchAt(tournament, p) EXCEPT !.pendingResults = m.pendingResults])
                  /\ resp.statsFor = NullWallet

\* C29 witness: the final of a 3-player tournament is pending without
\* pending results while the first round is completed; the submission of its
\* player1 is accepted and the final holds one pending result.
C29_Witness ==
  /\ HasBracket(tournament)
  /\ tournament.status = "started"
  /\ Len(tournament.bracket.rounds) = 2
  /\ tournament.bracket.rounds[2][1].status = "pending"
  /\ tournament.bracket.rounds[2][1].pendingResults = <<>>
  /\ LET m == tournament.bracket.rounds[2][1]
         resp == submitResult(tournament, m.id, m.player1.id, Num(1), Num(0))
     IN /\ Accepted(resp)
        /\ Len(resp.t.bracket.rounds[2][1].pendingResults) = 1
        /\ resp.t.bracket.rounds[2][1].status = "pending"
        /\ resp.t.bracket.rounds[1] = tournament.bracket.rounds[1]

\* C30: when an accepted result completes the current round and more than
\* one participant advances (the winners of the round in match order, after
\* round 1 followed by the bye players in their stored order), the request
\* raises currentRound by one and appends one round, whose i-th match is a
\* new pending match of the (2i-1)-th and the 2i-th advancing participant;
\* the rounds before the completed one stay as they were.
C30_NextRoundPairsConsecutively ==
  HasBracket(tournament)
    => \A matchId \in PlayMatchIds :
         LET p == TargetPos(tournament, matchId)
         IN (p # <<0, 0>> /\ p[1] = tournament.bracket.currentRound)
            => \A resp \in PlayCompletions(tournament, matchId) :
                 (/\ Accepted(resp)
                  /\ AllCompleted(resp.t.bracket.rounds[p[1]])
                  /\ Len(Advancing(tournament, resp.t, p[1])) > 1)
                 => LET advancing == Advancing(tournament, resp.t, p[1])
                        n == Len(tournament.bracket.rounds)
                    IN /\ resp.t.bracket.currentRound = tournament.bracket.currentRound + 1
                       /\ Len(resp.t.bracket.rounds) = n + 1
                       /\ Len(resp.t.bracket.rounds[n + 1]) = Len(advancing) \div 2
                       /\ \A i \in 1..Len(resp.t.bracket.rounds[n + 1]) :
                            resp.t.bracket.rounds[n + 1][i]
                              = NewMatch(<<resp.t.bracket.currentRound, i>>,
                                         advancing[2 * i - 1], advancing[2 * i])
                       /\ \A r \in 1..n :
                            r # p[1] => resp.t.bracket.rounds[r] = tournament.bracket.rounds[r]

\* C30 witness: five participants, the first round of one match is the
\* current one and three players hold byes; the admin result for player2
\* creates the second round, in which the winner meets the first bye player
\* and the second bye player meets the third.
C30_Witness ==
  /\ HasBracket(tournament)
  /\ tournament.status = "started"
  /\ tournament.bracket.currentRound = 1
  /\ Len(tournament.bracket.playersWithByes) = 3
  /\ tournament.bracket.rounds[1][1].status = "pending"
  /\ LET resp == adminSetResult(tournament, <<1, 1>>, 0, Num(0), Num(1))
         byes == tournament.bracket.playersWithByes
     IN /\ Accepted(resp)
        /\ resp.t.bracket.currentRound = 2
        /\ Len(resp.t.bracket.rounds) = 2
        /\ Len(resp.t.bracket.rounds[2]) = 2
        /\ resp.t.bracket.rounds[2][1].player1 = tournament.bracket.rounds[1][1].player2
        /\ resp.t.bracket.rounds[2][1].player2 = byes[1]
        /\ resp.t.bracket.rounds[2][2].player1 = byes[2]
        /\ resp.t.bracket.rounds[2][2].player2 = byes[3]

\* What holds of a match in conflict and of a step from such a state: every
\* submission for the match and its reset are rejected and write nothing,
\* and unless the step removes the tournament or installs a new bracket the
\* match is afterwards as it was or completed by the admin with its pending
\* results cleared.
ConflictStep ==
  HasBracket(tournament)
    => \A p \in Positions(tournament) :
         LET m == MatchAt(tournament, p)
         IN InConflict(m)
            => /\ \A submittedBy \in RequestIds, scores \in SubmitScores :
                    LET resp == submitResult(tournament, m.id, submittedBy, scores[1], scores[2])
                    IN ~Accepted(resp) /\ resp.t = tournament
               /\ ~Accepted(resetMatch(tournament, m.id))
               /\ resetMatch(tournament, m.id).t = tournament
               /\ (HasBracket(tournament') /\ ~IsStartStep)
                    => \/ MatchAt(tournament', p) = m
                       \/ /\ MatchAt(tournament', p).status = "completed"
                          /\ MatchAt(tournament', p).completedBy = "admin"
                          /\ MatchAt(tournament', p).pendingResults = <<>>

\* C31: a match in conflict leaves that state only through adminSetResult:
\* further submissions by either player and the match reset fail, and the
\* match is never completed with completedBy = auto.
C31_ConflictLeftOnlyByAdmin == [][ConflictStep]_vars

\* C31 witness: a match in conflict whose two players are both refused a
\* further submission, while an admin result completes it.
C31_Witness ==
  /\ HasBracket(tournament)
  /\ tournament.status = "started"
  /\ InConflict(tournament.bracket.rounds[1][1])
  /\ LET m == tournament.bracket.rounds[1][1]
     IN /\ submitResult(tournament, m.id, m.player1.id, Num(1), Num(0)).error = "duplicateSubmission"
        /\ submitResult(tournament, m.id, m.player2.id, Num(1), Num(0)).error = "duplicateSubmission"
        /\ resetMatch(tournament, m.id).error = "notCompleted"
        /\ LET resp == adminSetResult(tournament, m.id, 0, Num(1), Num(0))
           IN /\ Accepted(resp)
              /\ resp.t.bracket.rounds[1][1].status = "completed"
              /\ resp.t.bracket.rounds[1][1].completedBy = "admin"

\* ------------------------------------------------------ play under fairness
\* A tournament of 2 to MaxPlayers participants that is started and then
\* played with submissions of either pair by every player and with admin
\* results, for every match of the bracket, without match reset, cancel,
\* delete and force-complete.
LiveSubmitResult ==
  \E matchId \in RunMatchIds, submittedBy \in RunIds, scores \in PlayScores :
    Serve(submitResult(tournament, matchId, submittedBy, scores[1], scores[2]))

LiveAdminSetResult ==
  \E matchId \in RunMatchIds, body \in PlayBodies :
    Serve(adminSetResult(tournament, matchId, body.winnerId, body.score1, body.score2))

\* The answers of the requests that may decide the match of that id.
LiveCompletions(t, matchId) ==
  {adminSetResult(t, matchId, body.winnerId, body.score1, body.score2) : body \in PlayBodies}
    \cup {submitResult(t, matchId, x[1], x[2][1], x[2][2]) : x \in RunIds \X PlayScores}

\* The pending match of that id of the current round gets completed, by an
\* admin result or by the submission that agrees with the one before.
LiveResolve(matchId) ==
  /\ RunOpen(matchId)
  /\ \E resp \in LiveCompletions(tournament, matchId) :
       /\ MatchAt(resp.t, RunPos(matchId)).status = "completed"
       /\ Serve(resp)

NextLive ==
  \/ RunStart
  \/ LiveSubmitResult
  \/ LiveAdminSetResult

\* As long as the current round has a pending match, one of its pending
\* matches is eventually decided.
FairLive == WF_vars(\E matchId \in RunMatchIds : LiveResolve(matchId))

\* The tournaments of SpecLive have 2 to LivePlayers participants.
InitLive == InitBuilder /\ Len(tournament.participants) <= LivePlayers

SpecLive == InitLive /\ [][NextLive]_vars /\ FairLive

\* C32: when every pending match of the current round is eventually decided,
\* by two agreeing submissions or by an admin result, and there is no match
\* reset and no cancel, a started tournament eventually has status finished
\* and a winner.
C32_StartedEventuallyFinished ==
  (tournament.status = "started")
    ~> (tournament.status = "finished" /\ tournament.winner # NullPlayer)

\* C32 witness: four participants, finished after two rounds, the first
\* decided by the admin after a conflict and by agreement, the final by
\* agreement, with the winner of the final as winner of the tournament.
C32_Witness ==
  /\ tournament.status = "finished"
  /\ Len(tournament.participants) = 4
  /\ Len(tournament.bracket.rounds) = 2
  /\ tournament.bracket.rounds[1][1].completedBy = "admin"
  /\ tournament.bracket.rounds[1][2].completedBy = "auto"
  /\ tournament.bracket.rounds[2][1].completedBy = "auto"
  /\ tournament.winner # NullPlayer
  /\ tournament.winner = tournament.bracket.rounds[2][1].winner

\* The responses of every operation to every request in state t.
AllOperations(t) ==
  OtherOperations(t)
    \cup {createTournament(t, hasName) : hasName \in BOOLEAN}
    \cup {registerParticipant(t, w) : w \in RequestWallets}
    \cup {unregisterParticipant(t, w) : w \in RequestWallets}
    \cup {resetTournament(t), deleteTournament(t), cancelTournament(t)}

\* C33: a request answered with an error leaves the tournament document as
\* it was and records no statistics; and the one document an accepted
\* result writes has the round advancement applied together with the match:
\* when it leaves the current round all completed, the tournament is
\* finished or the next round is appended in the same document.
C33_ErrorsWriteNothing ==
  /\ \A resp \in AllOperations(tournament) :
       ~Accepted(resp) => (resp.t = tournament /\ resp.statsFor = NullWallet)
  /\ HasBracket(tournament)
       => \A matchId \in MatchIds :
            LET p == TargetPos(tournament, matchId)
            IN (p # <<0, 0>> /\ p[1] = tournament.bracket.currentRound)
               => \A resp \in Completions(tournament, matchId) :
                    (Accepted(resp) /\ AllCompleted(resp.t.bracket.rounds[p[1]]))
                      => \/ resp.t.status = "finished" /\ resp.t.bracket.isComplete
                         \/ /\ Len(resp.t.bracket.rounds) = Len(tournament.bracket.rounds) + 1
                            /\ resp.t.bracket.currentRound = tournament.bracket.currentRound + 1

\* C33 witness: the first-round match of a 3-player tournament holds the
\* result of player1; the same player's second submission, the submission
\* of the bye player and a register are answered with errors, and the admin
\* result is accepted and appends the final in the same document.
C33_Witness ==
  /\ HasBracket(tournament)
  /\ tournament.status = "started"
  /\ tournament.bracket.currentRound = 1
  /\ Len(tournament.bracket.playersWithByes) = 1
  /\ LET m == tournament.bracket.rounds[1][1]
     IN /\ Len(m.pendingResults) = 1
        /\ m.pendingResults[1].submittedBy = m.player1.id
        /\ submitResult(tournament, m.id, m.player1.id, Num(0), Num(1)).code = 400
        /\ submitResult(tournament, m.id, tournament.bracket.playersWithByes[1].id,
                        Num(1), Num(0)).code = 403
        /\ registerParticipant(tournament, m.player1.walletAddress).code = 400
        /\ LET resp == adminSetResult(tournament, m.id, 0, Num(1), Num(0))
           IN /\ Accepted(resp)
              /\ Len(resp.t.bracket.rounds) = 2
              /\ resp.t.bracket.rounds[1][1].status = "completed"

\* C34: when an accepted result makes the round advancement finish the
\* tournament, the round of the match is the last one: the bracket has
\* totalRounds rounds, the match is in the last of them and that round has
\* one match.
C34_FinishedOnlyAtFinalRound ==
  HasBracket(tournament)
    => \A matchId \in MatchIds :
         LET p == TargetPos(tournament, matchId)
         IN p # <<0, 0>>
            => \A resp \in Completions(tournament, matchId) :
                 (Accepted(resp) /\ resp.statsFor # NullWallet)
                 => /\ resp.t.bracket.isComplete
                    /\ Len(resp.t.bracket.rounds) = resp.t.bracket.totalRounds
                    /\ p[1] = resp.t.bracket.totalRounds
                    /\ Len(resp.t.bracket.rounds[p[1]]) = 1

\* ------------------------------------------------------------ counted wins
\* One tournament of 2 to WinsPlayers participants, started once, then
\* submissions, admin results, match resets and force-complete, with the
\* registry followed up to WinsCap wins.
InitWins == InitBuilder /\ Len(tournament.participants) <= WinsPlayers

ServeUpTo(resp, cap) ==
  /\ Accepted(resp)
  /\ tournament' = resp.t
  /\ RecordStatsUpTo(resp, cap)
  /\ UNCHANGED inflight

WinsStart ==
  LET n == Len(tournament.participants)
  IN /\ tournament.status = "registration"
     /\ ServeUpTo(startTournament(tournament, [i \in 1..(n - 1) |-> i],
                                  [k \in 1..(BracketSize(n) - n) |-> 0]), WinsCap)

WinsSubmitResult ==
  \E matchId \in MatchIds, submittedBy \in 1..WinsPlayers, scores \in PlaySubmitScores :
    ServeUpTo(submitResult(tournament, matchId, submittedBy, scores[1], scores[2]), WinsCap)

WinsAdminSetResult ==
  \E matchId \in MatchIds, body \in PlayBodies :
    ServeUpTo(adminSetResult(tournament, matchId, body.winnerId, body.score1, body.score2), WinsCap)

WinsResetMatch == \E matchId \in MatchIds : ServeUpTo(resetMatch(tournament, matchId), WinsCap)

WinsForceComplete ==
  \E winnerId \in 1..WinsPlayers : ServeUpTo(forceComplete(tournament, winnerId), WinsCap)

NextWins ==
  \/ WinsStart
  \/ WinsSubmitResult
  \/ WinsAdminSetResult
  \/ WinsResetMatch
  \/ WinsForceComplete

SpecWins == InitWins /\ [][NextWins]_vars

\* C35: the one tournament of the run adds at most one win in all to the
\* registry, whatever sequence of submissions, admin results, match resets
\* and force-completes it goes through.
C35_AtMostOneWinPerTournament ==
  SumWins(globalUsers, Cardinality(DOMAIN globalUsers)) <= 1

\* C36: the tournament has a winner exactly when its status is finished,
\* and a tournament with a bracket has the bracket's winner as its winner.
C36_WinnerIffFinished ==
  tournament.exists
    => /\ (tournament.winner # NullPlayer <=> tournament.status = "finished")
       /\ (HasBracket(tournament) => tournament.winner = tournament.bracket.winner)

\* The players a round has qualified: the current winners of its completed
\* matches, and after round 1 the bye players as well.
Qualified(t, r) ==
  {t.bracket.rounds[r][k].winner :
     k \in {j \in 1..Len(t.bracket.rounds[r]) : t.bracket.rounds[r][j].status = "completed"}}
    \cup (IF r = 1 THEN ByePlayers(t) ELSE {})

\* C37: every player slot of every match of a later round holds a player
\* the round before has qualified: the current winner of one of its
\* completed matches or, for round 2, a participant with a bye.
C37_BracketConsistent ==
  HasBracket(tournament)
    => \A r \in 1..(Len(tournament.bracket.rounds) - 1) :
         \A k \in 1..Len(tournament.bracket.rounds[r + 1]) :
           LET m == tournament.bracket.rounds[r + 1][k]
           IN /\ m.player1 \in Qualified(tournament, r)
              /\ m.player2 \in Qualified(tournament, r)

\* What a step does to the round counter of a bracket.
RoundCountStep ==
  /\ HasBracket(tournament')
       => LET b2 == tournament'.bracket
          IN /\ b2.currentRound = Len(b2.rounds)
             /\ 1 <= b2.currentRound
             /\ b2.currentRound <= b2.totalRounds
  /\ (HasBracket(tournament) /\ HasBracket(tournament') /\ ~IsStartStep)
       => LET b == tournament.bracket
              b2 == tournament'.bracket
          IN \/ /\ b2.currentRound = b.currentRound
                /\ Len(b2.rounds) = Len(b.rounds)
             \/ /\ b2.currentRound = b.currentRound + 1
                /\ Len(b2.rounds) = Len(b.rounds) + 1

\* C38: a bracket's currentRound is the number of its rounds and lies
\* between 1 and totalRounds; a step on the bracket either leaves both as
\* they are or appends one round and adds 1 to currentRound.
C38_CurrentRoundCountsRounds == [][RoundCountStep]_vars

\* C38 witness: a started tournament whose bracket has reached the third of
\* its three rounds, the final still to be played.
C38_Witness ==
  /\ HasBracket(tournament)
  /\ tournament.status = "started"
  /\ tournament.bracket.totalRounds = 3
  /\ tournament.bracket.currentRound = 3
  /\ Len(tournament.bracket.rounds) = 3
  /\ tournament.bracket.rounds[3][1].status = "pending"

\* C39: while the tournament is finished, no submit-result request changes
\* the bracket: none completes a match, stores a pending result or creates
\* a round.
C39_FinishedIgnoresSubmissions ==
  (HasBracket(tournament) /\ tournament.status = "finished")
    => \A matchId \in MatchIds, submittedBy \in RequestIds, scores \in SubmitScores :
         submitResult(tournament, matchId, submittedBy, scores[1], scores[2]).t.bracket
           = tournament.bracket

\* C40: a tournament with a bracket has bracket.isComplete = true exactly
\* when its status is finished.
C40_IsCompleteIffFinished ==
  HasBracket(tournament)
    => (tournament.bracket.isComplete <=> tournament.status = "finished")

\* C40 witness: a tournament force-completed in the middle of its bracket:
\* finished, the bracket complete, a match of its second round still
\* pending.
C40_Witness ==
  /\ HasBracket(tournament)
  /\ tournament.status = "finished"
  /\ tournament.bracket.isComplete
  /\ Len(tournament.bracket.rounds) = 2
  /\ tournament.bracket.rounds[2][1].status = "pending"
  /\ tournament.bracket.rounds[2][2].status = "pending"

====
